---- MODULE Spec2Model ----
(***************************************************************************)
(* Upstream identity provider reconciliation (pinniped supervisor).        *)
(*                                                                         *)
(* The OIDC driver (internal/controller/supervisorconfig/upstreamwatcher)  *)
(* and the Active Directory driver (.../activedirectoryupstreamwatcher)    *)
(* as state machines: the store of provider resources, the secrets, the    *)
(* discovery transport, the discovery cache, the published provider list,  *)
(* and one reconciliation pass as a sequence of steps (list, validate each *)
(* resource, publish).                                                     *)
(***************************************************************************)
EXTENDS Integers, Sequences, FiniteSets, TLC

\* ---------------------------------------------------------------- bounds

\* External events (resource, secret, transport, clock, context) per run.
MaxEvents == 1

\* Highest generation a resource reaches.
MaxGeneration == 2

\* ------------------------------------------------------------- constants

Names == {"a", "b"}
Issuers == {"i1", "i2"}

oidcClientSecretType == "secrets.pinniped.dev/oidc-client"
otherSecretType == "Opaque"

\* validatorCacheTTL = 15 * time.Minute, in minutes.
validatorCacheTTL == 15

typeClientCredsValid == "ClientCredentialsValid"
typeOIDCDiscoverySucceeded == "OIDCDiscoverySucceeded"
reasonNotFound == "SecretNotFound"
reasonWrongType == "SecretWrongType"
reasonMissingKeys == "SecretMissingKeys"
reasonSuccess == "Success"
reasonUnreachable == "Unreachable"
reasonInvalidResponse == "InvalidResponse"

ConditionTrue == "True"
ConditionFalse == "False"
PhaseReady == "Ready"
PhaseError == "Error"

\* ----------------------------------------------------------------- state

VARIABLES
    upstreams,          \* the store's UpstreamOIDCProviders, in listing order
    secrets,            \* secret name -> Secret or NoSecret
    discovery,          \* issuer -> what the discovery transport answers
    now,                \* the clock, in minutes
    cancelled,          \* the controller's context is cancelled
    validatorCache,     \* c.validatorCache: issuer -> entry or NoEntry
    idpCache,           \* c.cache: the list last handed to SetIDPList
    queue,              \* the singleton queue holds its key
    pc,                 \* "idle" or "loop": position of the worker in Sync
    actualUpstreams,    \* Sync: the listed resources
    idx,                \* Sync: resources validated so far
    validatedUpstreams, \* Sync: the list being built
    requeue,            \* Sync: the requeue flag
    lastResult,         \* what the last Sync returned
    pass,               \* record of the current or last pass (history)
    prev,               \* record of the pass before it (history)
    lastSet,            \* the argument of the last SetIDPList call (history)
    seen,               \* what the readers of the cache got: a torn list ever, a read during the pass under way
    events,             \* external events so far
    adUpstreams,        \* the store's ActiveDirectoryIdentityProviders
    adSecrets,          \* bind secret name -> Secret or NoSecret
    ldapDialer,         \* what a live connection test answers
    validatedSecretVersionsCache, \* resource name -> secret version or ""
    adCache,            \* the list last handed to SetActiveDirectoryIdentityProviders
    adQueue,            \* the Active Directory controller's singleton queue
    adSync,             \* the Active Directory worker's position and locals
    adPass,             \* record of its current or last pass (history)
    adSeen,             \* the same for the readers of adCache
    webhooks,           \* the store's WebhookAuthenticators: namespace and name
    jwtAuthenticators,  \* the store's JWTAuthenticators: namespace and name
    authnCache,         \* authncache.Cache: key -> value or NoValue
    closeCount,         \* Close calls so far on each value (history)
    gc,                 \* the cache cleaner's worker: position and locals
    gcQueue,            \* the cache cleaner's singleton queue holds its key
    gcPass,             \* record of its current or last pass (history)
    call,               \* the last call of a function checked on its own
    mgr                 \* the controller manager: per kind, queue and workers

oidcVars == <<upstreams, secrets, discovery, validatorCache, idpCache, queue, pc,
              actualUpstreams, idx, validatedUpstreams, requeue, lastResult, pass,
              prev, lastSet, seen>>

adVars == <<adUpstreams, adSecrets, ldapDialer, validatedSecretVersionsCache,
            adCache, adQueue, adSync, adPass, adSeen>>

gcVars == <<webhooks, jwtAuthenticators, authnCache, closeCount, gc, gcQueue, gcPass>>

vars == <<oidcVars, adVars, gcVars, call, mgr, now, cancelled, events>>

envVars == <<upstreams, secrets, discovery, now, cancelled>>
syncVars == <<pc, actualUpstreams, idx, validatedUpstreams, requeue, lastResult>>

\* ------------------------------------------------------------ data model

NoSecret == [found |-> FALSE]
NoEntry == [cached |-> FALSE]
NoProvider == [err |-> TRUE]

\* Secret data values: "" is a missing or empty key.
Secret(type, clientID, clientSecret) ==
    [found |-> TRUE, type |-> type, clientID |-> clientID, clientSecret |-> clientSecret]

GoodSecret == Secret(oidcClientSecretType, "id", "pw")

SecretStates ==
    {NoSecret, GoodSecret,
     Secret(otherSecretType, "id", "pw"),
     Secret(oidcClientSecretType, "", "pw"),
     Secret(oidcClientSecretType, "id", ""),
     Secret(oidcClientSecretType, "", "")}

\* An authorization endpoint as the discovery document gives it: scheme and
\* rest, or a text url.Parse rejects.
HTTPSAuthURL == <<"https", "idp.example.com/auth">>
HTTPAuthURL == <<"http", "idp.example.com/auth">>
BadAuthURL == <<"%zz">>

Provider(authURL) == [err |-> FALSE, authURL |-> authURL]

DiscoveryStates ==
    {NoProvider, Provider(HTTPSAuthURL), Provider(HTTPAuthURL), Provider(BadAuthURL)}

Condition(type, status, reason, message) ==
    [type |-> type, status |-> status, reason |-> reason, message |-> message,
     lastTransitionTime |-> 0, observedGeneration |-> 0]

EmptyStatus == [phase |-> "", conditions |-> <<>>]

Upstream(name, generation, issuer, secretName) ==
    [name |-> name, generation |-> generation, issuer |-> issuer,
     secretName |-> secretName, status |-> EmptyStatus]

NoURL == <<>>

\* provider.UpstreamOIDCIdentityProvider
Result(name) == [name |-> name, clientID |-> "", authorizationURL |-> NoURL]

SeqNames(s) == [i \in 1..Len(s) |-> s[i].name]
NameSet(s) == {s[i].name : i \in 1..Len(s)}

\* ------------------------------------------------------ pure functions

\* net/url.Parse on the endpoint, then URL.Scheme.
ParseURL(u) ==
    IF Len(u) = 2 THEN [err |-> FALSE, scheme |-> u[1], url |-> u]
    ELSE [err |-> TRUE, scheme |-> "", url |-> NoURL]

\* The order of condition types ("<" on the strings).
TypeRank(t) ==
    CASE t = "BindSecretValid" -> 1
      [] t = typeClientCredsValid -> 2
      [] t = "LDAPConnectionValid" -> 3
      [] t = typeOIDCDiscoverySucceeded -> 4
      [] OTHER -> 5

TypeLess(s, t) == TypeRank(s) < TypeRank(t)

\* sort.SliceStable by Type: insertion sort, equal types keep their order.
RECURSIVE InsertByType(_, _)
InsertByType(sorted, c) ==
    IF sorted = <<>> THEN <<c>>
    ELSE IF TypeLess(c.type, sorted[Len(sorted)].type)
         THEN Append(InsertByType(SubSeq(sorted, 1, Len(sorted) - 1), c), sorted[Len(sorted)])
         ELSE Append(sorted, c)

RECURSIVE SortByTypeFrom(_, _)
SortByTypeFrom(done, rest) ==
    IF rest = <<>> THEN done
    ELSE SortByTypeFrom(InsertByType(done, Head(rest)), Tail(rest))

\* A status handed over in the order the merge left it.
SortByType_AsMerged(conds) == conds

SortByType(conds) == SortByTypeFrom(<<>>, conds)

\* mergeCondition: the index of the existing condition of the type (the last
\* one, the loop does not stop at the first), 0 when there is none.
FindOld(existing, type) ==
    LET S == {i \in 1..Len(existing) : existing[i].type = type}
    IN IF S = {} THEN 0 ELSE CHOOSE i \in S : \A j \in S : j <= i

\* A merge that stamps every condition with the time of the pass.
CarryTransitionTime_Never(old, new) == new

\* mergeCondition's carry-forward of the transition time.
CarryTransitionTime(old, new) ==
    IF old.status = new.status
    THEN [new EXCEPT !.lastTransitionTime = old.lastTransitionTime]
    ELSE new

\* A merge that appends whatever the list holds.
mergeCondition_AlwaysAppend(existing, new) ==
    [conditions |-> Append(existing, new), changed |-> TRUE]

\* A merge that replaces the entry only when the status differs.
mergeCondition_StatusOnly(existing, new) ==
    LET i == FindOld(existing, new.type)
    IN IF i = 0
       THEN [conditions |-> Append(existing, new), changed |-> TRUE]
       ELSE IF existing[i].status # new.status
            THEN [conditions |-> [existing EXCEPT ![i] = new], changed |-> TRUE]
            ELSE [conditions |-> existing, changed |-> FALSE]

\* mergeCondition: the list after the merge and the returned flag.
mergeCondition(existing, new) ==
    LET i == FindOld(existing, new.type)
    IN IF i = 0
       THEN [conditions |-> Append(existing, new), changed |-> TRUE]
       ELSE LET merged == CarryTransitionTime(existing[i], new)
            IN IF existing[i] # merged
               THEN [conditions |-> [existing EXCEPT ![i] = merged], changed |-> TRUE]
               ELSE [conditions |-> existing, changed |-> FALSE]

\* ------------------------------------------------------------ validators

clientIDDataKey == "clientID"
clientSecretDataKey == "clientSecret"

\* fmt's %q of a string, for the strings of the model (nothing to escape).
Quoted(str) == "\"" \o str \o "\""

\* fmt's %q of a []string: the quoted elements between brackets, a space
\* between two of them.
RECURSIVE QuotedElements(_)
QuotedElements(list) ==
    IF list = <<>> THEN ""
    ELSE IF Len(list) = 1 THEN Quoted(list[1])
    ELSE Quoted(list[1]) \o " " \o QuotedElements(Tail(list))

QuotedList(list) == "[" \o QuotedElements(list) \o "]"

\* validateSecret, line 183: the message of the SecretMissingKeys condition.
MissingKeysMessage(secretName, keys) ==
    "referenced Secret " \o Quoted(secretName) \o " is missing required keys "
        \o QuotedList(keys)

\* A validateSecret that looks at the keys before the type.
validateSecret_KeysFirst(upstream, result, secretStore) ==
    LET secret == secretStore[upstream.secretName]
    IN IF ~secret.found
       THEN [cond |-> Condition(typeClientCredsValid, ConditionFalse, reasonNotFound,
                                "secret not found"),
             result |-> result]
       ELSE IF secret.clientID = "" \/ secret.clientSecret = ""
       THEN [cond |-> Condition(typeClientCredsValid, ConditionFalse, reasonMissingKeys,
                                MissingKeysMessage(upstream.secretName,
                                                   <<clientIDDataKey, clientSecretDataKey>>)),
             result |-> result]
       ELSE IF secret.type # oidcClientSecretType
       THEN [cond |-> Condition(typeClientCredsValid, ConditionFalse, reasonWrongType,
                                "referenced Secret has wrong type"),
             result |-> result]
       ELSE [cond |-> Condition(typeClientCredsValid, ConditionTrue, reasonSuccess,
                                "loaded client credentials"),
             result |-> [result EXCEPT !.clientID = secret.clientID]]

\* validateSecret: the ClientCredentialsValid condition and the result with
\* the client ID loaded on success.
validateSecret(upstream, result, secretStore) ==
    LET secret == secretStore[upstream.secretName]
    IN IF ~secret.found
       THEN [cond |-> Condition(typeClientCredsValid, ConditionFalse, reasonNotFound,
                                "secret not found"),
             result |-> result]
       ELSE IF secret.type # oidcClientSecretType
       THEN [cond |-> Condition(typeClientCredsValid, ConditionFalse, reasonWrongType,
                                "referenced Secret has wrong type"),
             result |-> result]
       ELSE IF secret.clientID = "" \/ secret.clientSecret = ""
       THEN [cond |-> Condition(typeClientCredsValid, ConditionFalse, reasonMissingKeys,
                                MissingKeysMessage(upstream.secretName,
                                                   <<clientIDDataKey, clientSecretDataKey>>)),
             result |-> result]
       ELSE [cond |-> Condition(typeClientCredsValid, ConditionTrue, reasonSuccess,
                                "loaded client credentials"),
             result |-> [result EXCEPT !.clientID = secret.clientID]]

\* A cache whose entries never expire.
CacheGet_NoExpiry(cache, key, time) ==
    IF cache[key].cached THEN cache[key].provider ELSE NoProvider

\* cache.Expiring.Get: an entry is returned until its expiry.
CacheGet(cache, key, time) ==
    IF cache[key].cached /\ time < cache[key].expiry THEN cache[key].provider ELSE NoProvider

\* cache.Expiring.Set
CacheSet(cache, key, provider, time, ttl) ==
    [cache EXCEPT ![key] = [cached |-> TRUE, provider |-> provider, expiry |-> time + ttl]]

\* oidc.NewProvider(ctx, issuer): the transport's answer; a cancelled
\* context fails the request.
NewProvider(ctxCancelled, issuer, transport) ==
    IF ctxCancelled THEN NoProvider ELSE transport[issuer]

\* A discovery that caches whatever the transport answered, the failure
\* too, and answers from the cache until the entry expires.
Discover_ReuseFailure(ctxCancelled, upstream, cache, transport, time) ==
    IF cache[upstream.issuer].cached /\ time < cache[upstream.issuer].expiry
    THEN [provider |-> cache[upstream.issuer].provider, cache |-> cache, called |-> FALSE]
    ELSE LET fresh == NewProvider(ctxCancelled, upstream.issuer, transport)
         IN [provider |-> fresh,
             cache |-> CacheSet(cache, upstream.issuer, fresh, time, validatorCacheTTL),
             called |-> TRUE]

\* validateIssuer: lines 199-220, the provider from the cache or from a fresh
\* discovery, and the cache after it.
Discover(ctxCancelled, upstream, cache, transport, time) ==
    LET cached == CacheGet(cache, upstream.issuer, time)
    IN IF ~cached.err
       THEN [provider |-> cached, cache |-> cache, called |-> FALSE]
       ELSE LET fresh == NewProvider(ctxCancelled, upstream.issuer, transport)
            IN IF fresh.err
               THEN [provider |-> NoProvider, cache |-> cache, called |-> TRUE]
               ELSE [provider |-> fresh,
                     cache |-> CacheSet(cache, upstream.issuer, fresh, time, validatorCacheTTL),
                     called |-> TRUE]

\* An endpoint check that takes any URL that parses.
CheckEndpoint_AnyScheme(provider, result) ==
    LET authURL == ParseURL(provider.authURL)
    IN IF authURL.err
       THEN [cond |-> Condition(typeOIDCDiscoverySucceeded, ConditionFalse,
                                reasonInvalidResponse, "failed to parse authorization endpoint URL"),
             result |-> result]
       ELSE [cond |-> Condition(typeOIDCDiscoverySucceeded, ConditionTrue, reasonSuccess,
                                "discovered issuer configuration"),
             result |-> [result EXCEPT !.authorizationURL = authURL.url]]

\* validateIssuer: lines 222-248, the authorization endpoint of the provider.
CheckEndpoint(provider, result) ==
    LET authURL == ParseURL(provider.authURL)
    IN IF authURL.err
       THEN [cond |-> Condition(typeOIDCDiscoverySucceeded, ConditionFalse,
                                reasonInvalidResponse, "failed to parse authorization endpoint URL"),
             result |-> result]
       ELSE IF authURL.scheme # "https"
       THEN [cond |-> Condition(typeOIDCDiscoverySucceeded, ConditionFalse,
                                reasonInvalidResponse, "authorization endpoint URL scheme must be https"),
             result |-> result]
       ELSE [cond |-> Condition(typeOIDCDiscoverySucceeded, ConditionTrue, reasonSuccess,
                                "discovered issuer configuration"),
             result |-> [result EXCEPT !.authorizationURL = authURL.url]]

\* validateIssuer
validateIssuer(ctxCancelled, upstream, result, cache, transport, time) ==
    LET d == Discover(ctxCancelled, upstream, cache, transport, time)
    IN IF d.provider.err
       THEN [cond |-> Condition(typeOIDCDiscoverySucceeded, ConditionFalse, reasonUnreachable,
                                "failed to perform OIDC discovery"),
             result |-> result, cache |-> d.cache, called |-> d.called]
       ELSE LET e == CheckEndpoint(d.provider, result)
            IN [cond |-> e.cond, result |-> e.result, cache |-> d.cache, called |-> d.called]

\* A merge loop that leaves the observed generation as the validators set it.
RECURSIVE MergeAll_Unstamped(_, _, _, _)
MergeAll_Unstamped(status, conditions, generation, time) ==
    IF conditions = <<>> THEN status
    ELSE LET cond == [Head(conditions) EXCEPT !.lastTransitionTime = time]
             m == mergeCondition(status.conditions, cond)
         IN MergeAll_Unstamped(
                [phase |-> IF cond.status = ConditionFalse THEN PhaseError ELSE status.phase,
                 conditions |-> m.conditions],
                Tail(conditions), generation, time)

\* updateStatus, the loop of lines 257-267: conditions merged one by one
\* into the copy, the phase set from the new conditions.
RECURSIVE MergeAll(_, _, _, _)
MergeAll(status, conditions, generation, time) ==
    IF conditions = <<>> THEN status
    ELSE LET cond == [Head(conditions) EXCEPT !.lastTransitionTime = time,
                                              !.observedGeneration = generation]
             m == mergeCondition(status.conditions, cond)
         IN MergeAll([phase |-> IF cond.status = ConditionFalse THEN PhaseError ELSE status.phase,
                      conditions |-> m.conditions],
                     Tail(conditions), generation, time)

\* updateStatus: the copy as handed to UpdateStatus (lines 253-271).
Updated(upstream, conditions, time) ==
    LET merged == MergeAll([upstream.status EXCEPT !.phase = PhaseReady],
                           conditions, upstream.generation, time)
    IN [upstream EXCEPT !.status = [phase |-> merged.phase,
                                    conditions |-> SortByType(merged.conditions)]]

\* An updateStatus that merges into the listed object itself.
updateStatus_InPlace(upstream, conditions, time) ==
    [listed |-> Updated(upstream, conditions, time),
     updated |-> Updated(upstream, conditions, time)]

\* updateStatus, line 253: updated := upstream.DeepCopy(). The merge, the
\* phase and the sort work on the copy; the object the lister returned is
\* left as it was passed in.
updateStatus(upstream, conditions, time) ==
    [listed |-> upstream, updated |-> Updated(upstream, conditions, time)]

\* A validity test that looks at the first condition only.
IsValid_FirstOnly(conditions) == conditions[1].status # ConditionFalse

\* validateUpstream, lines 132-147: the result is returned when no condition
\* is False.
IsValid(conditions) ==
    \A i \in 1..Len(conditions) : conditions[i].status # ConditionFalse

\* A validation that stops at a failing secret: the issuer is not asked.
validateUpstream_ShortCircuit(ctxCancelled, upstream, secretStore, cache, transport, time) ==
    LET s == validateSecret(upstream, Result(upstream.name), secretStore)
        d == validateIssuer(ctxCancelled, upstream, s.result, cache, transport, time)
        conditions == IF s.cond.status = ConditionFalse THEN <<s.cond>> ELSE <<s.cond, d.cond>>
    IN [conditions |-> conditions,
        valid |-> IsValid(conditions),
        result |-> d.result,
        updated |-> updateStatus(upstream, conditions, time).updated,
        listed |-> updateStatus(upstream, conditions, time).listed,
        cache |-> IF s.cond.status = ConditionFalse THEN cache ELSE d.cache,
        called |-> s.cond.status # ConditionFalse /\ d.called]

\* validateUpstream without the status write: the conditions, the result or
\* none, the copy updateStatus builds, and the discovery cache afterwards.
validateUpstream(ctxCancelled, upstream, secretStore, cache, transport, time) ==
    LET s == validateSecret(upstream, Result(upstream.name), secretStore)
        d == validateIssuer(ctxCancelled, upstream, s.result, cache, transport, time)
        conditions == <<s.cond, d.cond>>
    IN [conditions |-> conditions,
        valid |-> IsValid(conditions),
        result |-> d.result,
        updated |-> updateStatus(upstream, conditions, time).updated,
        listed |-> updateStatus(upstream, conditions, time).listed,
        cache |-> d.cache,
        called |-> d.called]

\* --------------------------------------------------- the pass, step by step

SecretNames == {"s1", "s2"}

\* The spec of the resource of each name: its issuer and its secret.
IssuerOf(name) == IF name = "a" THEN "i1" ELSE "i2"
SecretNameOf(name) == IF name = "a" THEN "s1" ELSE "s2"

NewPass ==
    [listed |-> <<>>, conditions |-> <<>>, updated |-> <<>>, times |-> <<>>,
     called |-> <<>>, aborted |-> {}, writes |-> <<>>, rejected |-> 0,
     setCalls |-> 0, result |-> "running", dirty |-> FALSE]

NoPass == [NewPass EXCEPT !.result = "none"]

\* What a pass leaves for the comparison with the next one.
Summary(p, published) ==
    [result |-> p.result, published |-> published, rejected |-> p.rejected,
     dirty |-> p.dirty, wrote |-> \E i \in 1..Len(p.writes) : p.writes[i] > 0,
     hits |-> {p.listed[i].issuer : i \in {j \in 1..Len(p.called) : ~p.called[j]}},
     unreachable |-> {p.listed[i].issuer :
                         i \in {j \in 1..Len(p.conditions) :
                                   \E k \in 1..Len(p.conditions[j]) :
                                       p.conditions[j][k].reason = reasonUnreachable}}]

NoSummary == Summary(NoPass, <<>>)

\* Sync, lines 97-103: the worker takes the key from the queue and lists.
SyncList ==
    /\ pc = "idle" /\ queue /\ ~cancelled
    /\ queue' = FALSE
    /\ pc' = "loop"
    /\ actualUpstreams' = upstreams
    /\ idx' = 0
    /\ validatedUpstreams' = <<>>
    /\ requeue' = FALSE
    /\ prev' = Summary(pass, idpCache)
    /\ pass' = [NewPass EXCEPT !.listed = upstreams]
    /\ UNCHANGED <<adVars, gcVars, call, mgr, envVars, validatorCache, idpCache, lastResult, lastSet, seen, events>>

\* A lister error treated as an empty list.
OnListError_PublishEmpty(cache) == [cache |-> <<>>, setCalls |-> 1, result |-> "error"]

\* Sync, lines 98-100: on a lister error Sync returns at once; the cache
\* after it, the number of SetIDPList calls and the return value.
OnListError(cache) == [cache |-> cache, setCalls |-> 0, result |-> "error"]

\* Sync, lines 97-100: the lister fails, Sync returns the error and the
\* scheduler retries the key.
SyncListFails ==
    /\ pc = "idle" /\ queue /\ ~cancelled
    /\ pass.result # "error"
    /\ \E r \in {OnListError(idpCache)} :
          /\ idpCache' = r.cache
          /\ lastResult' = r.result
          /\ pass' = [NewPass EXCEPT !.result = r.result, !.setCalls = r.setCalls]
    /\ queue' = TRUE
    /\ prev' = Summary(pass, idpCache)
    /\ UNCHANGED <<adVars, gcVars, call, mgr, envVars, validatorCache, pc, actualUpstreams, idx,
                   validatedUpstreams, requeue, lastSet, seen, events>>

\* An iteration that hands the list built so far to the cache.
LoopBody_PublishEach(validated, rq, cache, v) ==
    [validatedUpstreams |-> IF v.valid THEN Append(validated, v.result) ELSE validated,
     requeue |-> rq \/ ~v.valid,
     cache |-> IF v.valid THEN Append(validated, v.result) ELSE validated]

\* An iteration that forgets the list built so far when a resource fails.
LoopBody_ResetOnFailure(validated, rq, cache, v) ==
    [validatedUpstreams |-> IF v.valid THEN Append(validated, v.result) ELSE <<>>,
     requeue |-> rq \/ ~v.valid,
     cache |-> cache]

\* An iteration that never asks for a requeue.
LoopBody_NoRequeue(validated, rq, cache, v) ==
    [validatedUpstreams |-> IF v.valid THEN Append(validated, v.result) ELSE validated,
     requeue |-> rq,
     cache |-> cache]

\* Sync, lines 105-110: what one iteration does to the pass's list, its
\* requeue flag and the published cache.
LoopBody(validated, rq, cache, v) ==
    [validatedUpstreams |-> IF v.valid THEN Append(validated, v.result) ELSE validated,
     requeue |-> rq \/ ~v.valid,
     cache |-> cache]

\* UpdateStatus in the store: the status of the resource is replaced when
\* the store still holds the object as it was listed.
StoreHolds(store, upstream) ==
    \E i \in 1..Len(store) : store[i] = upstream

WriteStatus(store, updated) ==
    [i \in 1..Len(store) |->
        IF store[i].name = updated.name
        THEN [store[i] EXCEPT !.status = updated.status]
        ELSE store[i]]

\* An updateStatus without the early return.
NeedsWrite_Always(upstream, updated) == TRUE

\* A comparison of the phase alone.
NeedsWrite_PhaseOnly(upstream, updated) == upstream.status.phase # updated.status.phase

\* updateStatus, lines 273-275: the write is issued unless nothing changed.
NeedsWrite(upstream, updated) == upstream # updated

\* A validation that counts a resource invalid when its status write failed.
AfterUpdateStatus_FailOnReject(v, writeFailed) ==
    IF writeFailed THEN [v EXCEPT !.valid = FALSE] ELSE v

\* validateUpstream, lines 130-147: updateStatus returns nothing and only
\* logs a failed write (lines 281-283), so the validation goes on with what
\* it had.
AfterUpdateStatus(v, writeFailed) == v

\* Sync, lines 104-111: one iteration, validateUpstream with its status
\* write. accepted: the store takes the write.
SyncValidate(accepted) ==
    /\ pc = "loop" /\ idx < Len(actualUpstreams)
    /\ \E upstream \in {actualUpstreams[idx + 1]} :
       \E v \in {validateUpstream(cancelled, upstream, secrets, validatorCache, discovery, now)} :
       \E write \in {NeedsWrite(upstream, v.updated)} :
       \E body \in {LoopBody(validatedUpstreams, requeue, idpCache,
                              AfterUpdateStatus(v, write /\ ~accepted))} :
       \E canAccept \in {~cancelled /\ StoreHolds(upstreams, upstream)} :
          /\ accepted => (write /\ canAccept)
          /\ (write /\ ~accepted /\ canAccept) => events < MaxEvents
          /\ events' = IF write /\ ~accepted /\ canAccept THEN events + 1 ELSE events
          /\ upstreams' = IF accepted THEN WriteStatus(upstreams, v.updated) ELSE upstreams
          /\ queue' = (queue \/ accepted)
          /\ validatorCache' = v.cache
          /\ validatedUpstreams' = body.validatedUpstreams
          /\ requeue' = body.requeue
          /\ idpCache' = body.cache
          /\ idx' = idx + 1
          /\ actualUpstreams' = [actualUpstreams EXCEPT ![idx + 1] = v.listed]
          /\ pass' = [pass EXCEPT
                !.conditions = Append(@, v.conditions),
                !.updated = Append(@, v.updated),
                !.times = Append(@, now),
                !.called = Append(@, v.called),
                !.aborted = IF cancelled /\ ~v.valid
                                /\ validateUpstream(FALSE, upstream, secrets, validatorCache,
                                                     discovery, now).valid
                            THEN @ \cup {upstream.name} ELSE @,
                !.writes = Append(@, IF write THEN 1 ELSE 0),
                !.rejected = IF write /\ ~accepted THEN @ + 1 ELSE @]
    /\ UNCHANGED <<adVars, gcVars, call, mgr, secrets, discovery, now, cancelled, pc,
                   lastResult, prev, lastSet, seen>>

\* Sync, line 112: the cache after SetIDPList(validatedUpstreams).
Publish(cache, validated) == validated

\* Sync, lines 112-116: SetIDPList with the list built, then the return
\* value; the scheduler puts the key back on a synthetic requeue.
SyncPublish ==
    /\ pc = "loop" /\ idx = Len(actualUpstreams)
    /\ idpCache' = Publish(idpCache, validatedUpstreams)
    /\ lastSet' = validatedUpstreams
    /\ lastResult' = IF requeue THEN "requeue" ELSE "nil"
    /\ queue' = (queue \/ requeue)
    /\ pass' = [pass EXCEPT !.setCalls = @ + 1,
                            !.result = IF requeue THEN "requeue" ELSE "nil"]
    /\ pc' = "idle"
    /\ actualUpstreams' = <<>>
    /\ idx' = 0
    /\ validatedUpstreams' = <<>>
    /\ requeue' = FALSE
    /\ seen' = [seen EXCEPT !.midPass = FALSE]
    /\ UNCHANGED <<adVars, gcVars, call, mgr, envVars, validatorCache, prev, events>>

\* A reader of the published list (the authentication path).
ReadSnapshot ==
    /\ seen' = [torn |-> seen.torn \/ idpCache # lastSet,
                midPass |-> seen.midPass \/ (pc = "loop" /\ validatedUpstreams # <<>>)]
    /\ UNCHANGED <<adVars, gcVars, call, mgr, envVars, validatorCache, idpCache, queue, syncVars, pass, prev,
                   lastSet, events>>

\* ------------------------------------------------------- the environment

Event ==
    /\ events < MaxEvents
    /\ events' = events + 1

Dirty == pass' = [pass EXCEPT !.dirty = TRUE]

driverVars == <<validatorCache, idpCache, syncVars, prev, lastSet, seen>>

DeleteUpstream(n) ==
    /\ Event
    /\ n \in NameSet(upstreams)
    /\ upstreams' = SelectSeq(upstreams, LAMBDA u : u.name # n)
    /\ queue' = TRUE
    /\ Dirty
    /\ UNCHANGED <<adVars, gcVars, call, mgr, secrets, discovery, now, cancelled, driverVars>>

CreateUpstream(n) ==
    /\ Event
    /\ n \notin NameSet(upstreams)
    /\ upstreams' = Append(upstreams, Upstream(n, 1, IssuerOf(n), SecretNameOf(n)))
    /\ queue' = TRUE
    /\ Dirty
    /\ UNCHANGED <<adVars, gcVars, call, mgr, secrets, discovery, now, cancelled, driverVars>>

\* A change of the resource's spec: the store bumps the generation.
EditUpstream(n) ==
    /\ Event
    /\ \E i \in 1..Len(upstreams) :
          /\ upstreams[i].name = n
          /\ upstreams[i].generation < MaxGeneration
          /\ upstreams' = [upstreams EXCEPT ![i].generation = @ + 1]
    /\ queue' = TRUE
    /\ Dirty
    /\ UNCHANGED <<adVars, gcVars, call, mgr, secrets, discovery, now, cancelled, driverVars>>

SetSecret(name, value) ==
    /\ Event
    /\ secrets[name] # value
    /\ secrets' = [secrets EXCEPT ![name] = value]
    /\ queue' = TRUE
    /\ Dirty
    /\ UNCHANGED <<adVars, gcVars, call, mgr, upstreams, discovery, now, cancelled, driverVars>>

\* The issuer's discovery endpoint changes its answer: no watch event.
SetDiscovery(issuer, value) ==
    /\ Event
    /\ discovery[issuer] # value
    /\ discovery' = [discovery EXCEPT ![issuer] = value]
    /\ Dirty
    /\ UNCHANGED <<adVars, gcVars, call, mgr, upstreams, secrets, now, cancelled, queue, driverVars>>

Tick(d) ==
    /\ Event
    /\ now' = now + d
    /\ UNCHANGED <<adVars, gcVars, call, mgr, upstreams, secrets, discovery, cancelled, queue, pass, driverVars>>

\* The controller's context is cancelled (shutdown): no new pass starts.
Cancel ==
    /\ Event
    /\ ~cancelled
    /\ cancelled' = TRUE
    /\ Dirty
    /\ UNCHANGED <<adVars, gcVars, call, mgr, upstreams, secrets, discovery, now, queue, driverVars>>

\* ------------------------------------------- the Active Directory driver

AdNames == {"x", "y"}
BindSecretNames == {"bx", "by"}
BindSecretNameOf(name) == IF name = "x" THEN "bx" ELSE "by"

ldapBindAccountSecretType == "kubernetes.io/basic-auth"

BindSecret(type, username, password, version) ==
    [found |-> TRUE, type |-> type, username |-> username, password |-> password,
     resourceVersion |-> version]

GoodBindSecret == BindSecret(ldapBindAccountSecretType, "cn=admin", "pw", "v1")

BindSecretStates ==
    {NoSecret,
     BindSecret(ldapBindAccountSecretType, "cn=admin", "pw", "v1"),
     BindSecret(ldapBindAccountSecretType, "cn=admin", "pw", "v2"),
     BindSecret(ldapBindAccountSecretType, "cn=admin", "", "v1"),
     BindSecret(otherSecretType, "cn=admin", "pw", "v1")}

DialerStates == {"ok", "dial failed", "bind failed"}

defaultActiveDirectoryUsernameAttributeName == "sAMAccountName"
defaultActiveDirectoryUIDAttributeName == "objectGUID"

\* ActiveDirectoryIdentityProviderSpec without the bind secret and TLS: the
\* host, the user search and the group search; "" is an attribute left out.
AdSpec(host, userSearch, groupSearch) ==
    [host |-> host, userSearch |-> userSearch, groupSearch |-> groupSearch]

UserSearch(base, filter, username, uid) ==
    [base |-> base, filter |-> filter, attributes |-> [username |-> username, uid |-> uid]]

GroupSearch(base, filter, groupName) ==
    [base |-> base, filter |-> filter, attributes |-> [groupName |-> groupName]]

\* The spec of the resource of each name: "x" leaves the attributes out.
AdSpecOf(name) ==
    IF name = "x"
    THEN AdSpec("ldap.example.com", UserSearch("ou=users", "", "", ""),
                GroupSearch("ou=groups", "", ""))
    ELSE AdSpec("ad.example.com:636", UserSearch("ou=users", "(mail={})", "mail", ""),
                GroupSearch("", "", "cn"))

AdUpstream(name, generation, secretName) ==
    [name |-> name, generation |-> generation, secretName |-> secretName,
     spec |-> AdSpecOf(name), status |-> EmptyStatus]

\* A configuration whose UID default depends on the username attribute
\* being left out too.
ProviderConfig_CoupledDefaults(upstream) ==
    LET spec == upstream.spec
        usernameAttribute == IF spec.userSearch.attributes.username = ""
                             THEN defaultActiveDirectoryUsernameAttributeName
                             ELSE spec.userSearch.attributes.username
        uidAttribute == IF spec.userSearch.attributes.username = ""
                           /\ spec.userSearch.attributes.uid = ""
                        THEN defaultActiveDirectoryUIDAttributeName
                        ELSE spec.userSearch.attributes.uid
    IN [name |-> upstream.name,
        host |-> spec.host,
        userSearch |-> [base |-> spec.userSearch.base,
                        filter |-> spec.userSearch.filter,
                        usernameAttribute |-> usernameAttribute,
                        uidAttribute |-> uidAttribute],
        groupSearch |-> [base |-> spec.groupSearch.base,
                         filter |-> spec.groupSearch.filter,
                         groupNameAttribute |-> spec.groupSearch.attributes.groupName],
        dialer |-> "c.ldapDialer"]

\* activeDirectoryWatcherController.validateUpstream, lines 224-250: the
\* upstreamldap.ProviderConfig built for the resource.
ProviderConfig(upstream) ==
    LET spec == upstream.spec
        usernameAttribute == IF spec.userSearch.attributes.username = ""
                             THEN defaultActiveDirectoryUsernameAttributeName
                             ELSE spec.userSearch.attributes.username
        uidAttribute == IF spec.userSearch.attributes.uid = ""
                        THEN defaultActiveDirectoryUIDAttributeName
                        ELSE spec.userSearch.attributes.uid
    IN [name |-> upstream.name,
        host |-> spec.host,
        userSearch |-> [base |-> spec.userSearch.base,
                        filter |-> spec.userSearch.filter,
                        usernameAttribute |-> usernameAttribute,
                        uidAttribute |-> uidAttribute],
        groupSearch |-> [base |-> spec.groupSearch.base,
                         filter |-> spec.groupSearch.filter,
                         groupNameAttribute |-> spec.groupSearch.attributes.groupName],
        dialer |-> "c.ldapDialer"]

\* The bind secret's condition (secret validation, found / type / keys).
validateBindSecret(upstream, secretStore) ==
    LET secret == secretStore[upstream.secretName]
    IN IF ~secret.found
       THEN Condition("BindSecretValid", ConditionFalse, reasonNotFound, "secret not found")
       ELSE IF secret.type # ldapBindAccountSecretType
       THEN Condition("BindSecretValid", ConditionFalse, reasonWrongType,
                      "referenced Secret has wrong type")
       ELSE IF secret.username = "" \/ secret.password = ""
       THEN Condition("BindSecretValid", ConditionFalse, reasonMissingKeys,
                      "referenced Secret is missing required keys")
       ELSE Condition("BindSecretValid", ConditionTrue, reasonSuccess, "loaded bind secret")

\* A connection test that dials whatever version is recorded.
validateConnection_AlwaysDial(ctxCancelled, upstream, secret, versions, dialer) ==
    IF ~ctxCancelled /\ dialer = "ok"
    THEN [cond |-> Condition("LDAPConnectionValid", ConditionTrue, reasonSuccess,
                             "successfully able to connect and bind"),
          versions |-> [versions EXCEPT ![upstream.name] = secret.resourceVersion],
          dialed |-> TRUE]
    ELSE [cond |-> Condition("LDAPConnectionValid", ConditionFalse, "LDAPConnectionError",
                             IF ctxCancelled THEN "dial failed" ELSE dialer),
          versions |-> versions, dialed |-> TRUE]

\* A connection test that records the version it tested whatever the outcome.
validateConnection_RecordAlways(ctxCancelled, upstream, secret, versions, dialer) ==
    IF versions[upstream.name] = secret.resourceVersion
    THEN [cond |-> Condition("LDAPConnectionValid", ConditionTrue, reasonSuccess,
                             "successfully able to connect and bind"),
          versions |-> versions, dialed |-> FALSE]
    ELSE [cond |-> Condition("LDAPConnectionValid",
                             IF ~ctxCancelled /\ dialer = "ok" THEN ConditionTrue
                             ELSE ConditionFalse,
                             IF ~ctxCancelled /\ dialer = "ok" THEN reasonSuccess
                             ELSE "LDAPConnectionError",
                             "connection tested"),
          versions |-> [versions EXCEPT ![upstream.name] = secret.resourceVersion],
          dialed |-> TRUE]

\* The connection's condition: skipped when the secret's version is the one
\* last validated for the resource, else a live test through the dialer,
\* whose success records the version.
validateConnection(ctxCancelled, upstream, secret, versions, dialer) ==
    IF versions[upstream.name] = secret.resourceVersion
    THEN [cond |-> Condition("LDAPConnectionValid", ConditionTrue, reasonSuccess,
                             "successfully able to connect and bind"),
          versions |-> versions, dialed |-> FALSE]
    ELSE IF ~ctxCancelled /\ dialer = "ok"
    THEN [cond |-> Condition("LDAPConnectionValid", ConditionTrue, reasonSuccess,
                             "successfully able to connect and bind"),
          versions |-> [versions EXCEPT ![upstream.name] = secret.resourceVersion],
          dialed |-> TRUE]
    ELSE [cond |-> Condition("LDAPConnectionValid", ConditionFalse, "LDAPConnectionError",
                             IF ctxCancelled THEN "dial failed" ELSE dialer),
          versions |-> versions, dialed |-> TRUE]

\* The list holds a failed connection condition.
HasFalseConnection(conditions) ==
    \E i \in 1..Len(conditions) :
        conditions[i].type = "LDAPConnectionValid" /\ conditions[i].status # ConditionTrue

\* upstreamwatchers.ValidateGenericLDAP: the secret's condition, then the
\* connection's when there is a usable secret.
ValidateGenericLDAP(ctxCancelled, upstream, secretStore, versions, dialer) ==
    LET s == validateBindSecret(upstream, secretStore)
    IN IF s.status # ConditionTrue
       THEN [conditions |-> <<s>>, versions |-> versions, dialed |-> FALSE]
       ELSE LET c == validateConnection(ctxCancelled, upstream,
                                        secretStore[upstream.secretName], versions, dialer)
            IN [conditions |-> <<s, c.cond>>, versions |-> c.versions, dialed |-> c.dialed]

\* upstreamwatchers.EvaluateConditions: the provider when every condition is
\* True; a requeue when a condition failed for a transient reason (the
\* connection test).
EvaluateConditions(conditions, config) ==
    [valid |-> IsValid(conditions),
     provider |-> config,
     requeue |-> \E i \in 1..Len(conditions) :
                    /\ conditions[i].type = "LDAPConnectionValid"
                    /\ conditions[i].status # ConditionTrue]

\* activeDirectoryWatcherController.updateStatus, lines 261-268: the copy
\* with the conditions merged (conditionsutil.Merge) and the phase set.
AdUpdated(upstream, conditions, time) == Updated(upstream, conditions, time)

\* activeDirectoryWatcherController.updateStatus, line 261: updated :=
\* upstream.DeepCopy(), the listed object left as it was passed in.
adUpdateStatus(upstream, conditions, time) ==
    [listed |-> upstream, updated |-> AdUpdated(upstream, conditions, time)]

\* activeDirectoryWatcherController.validateUpstream without the status write.
adValidateUpstream(ctxCancelled, upstream, secretStore, versions, dialer, time) ==
    LET config == ProviderConfig(upstream)
        g == ValidateGenericLDAP(ctxCancelled, upstream, secretStore, versions, dialer)
        e == EvaluateConditions(g.conditions, config)
    IN [conditions |-> g.conditions, valid |-> e.valid, provider |-> e.provider,
        requeue |-> e.requeue,
        updated |-> adUpdateStatus(upstream, g.conditions, time).updated,
        listed |-> adUpdateStatus(upstream, g.conditions, time).listed,
        versions |-> g.versions, dialed |-> g.dialed]

AdIdle == [pc |-> "idle", actualUpstreams |-> <<>>, idx |-> 0,
           validatedUpstreams |-> <<>>, requeue |-> FALSE]

AdNewPass == [listed |-> <<>>, valid |-> <<>>, requeue |-> <<>>, setCalls |-> 0,
              statusWrites |-> 0, rejected |-> 0,
              conditions |-> <<>>, dialed |-> <<>>, recorded |-> <<>>,
              recordedAfter |-> <<>>, succeeded |-> {}, failed |-> {},
              configs |-> <<>>, traced |-> FALSE,
              result |-> "running", before |-> <<>>, published |-> <<>>]

\* The record of a controller whose passes keep the history of their
\* conditions and dial calls (traced), for the claims about them.
AdTraced == [AdNewPass EXCEPT !.result = "none", !.traced = TRUE]

\* Sync, lines 198-204
AdSyncList ==
    /\ adSync.pc = "idle" /\ adQueue /\ ~cancelled
    /\ adQueue' = FALSE
    /\ adSync' = [AdIdle EXCEPT !.pc = "loop", !.actualUpstreams = adUpstreams]
    /\ adPass' = [AdNewPass EXCEPT !.listed = adUpstreams, !.before = adCache,
                                   !.published = adPass.published,
                                   !.succeeded = adPass.succeeded,
                                   !.failed = adPass.failed,
                                   !.traced = adPass.traced]
    /\ UNCHANGED <<oidcVars, gcVars, call, mgr, adUpstreams, adSecrets, ldapDialer, validatedSecretVersionsCache,
                   adCache, adSeen, now, cancelled, events>>

\* Sync, lines 199-201: on a lister error Sync returns at once.
AdOnListError(cache) == [cache |-> cache, setCalls |-> 0, result |-> "error"]

\* Sync, lines 198-201: the lister fails.
AdSyncListFails ==
    /\ adSync.pc = "idle" /\ adQueue /\ ~cancelled
    /\ adPass.result # "error"
    /\ \E r \in {AdOnListError(adCache)} :
          /\ adCache' = r.cache
          /\ adPass' = [AdNewPass EXCEPT !.result = r.result, !.setCalls = r.setCalls,
                                         !.before = adCache,
                                         !.published = adPass.published,
                                         !.succeeded = adPass.succeeded,
                                         !.failed = adPass.failed,
                                         !.traced = adPass.traced]
    /\ adQueue' = TRUE
    /\ UNCHANGED <<oidcVars, gcVars, call, mgr, adUpstreams, adSecrets, ldapDialer, validatedSecretVersionsCache,
                   adSync, adSeen, now, cancelled, events>>

\* Sync, lines 206-212: what one iteration does to the locals and the cache.
AdLoopBody(sync, cache, v) ==
    [sync |-> [sync EXCEPT
                 !.validatedUpstreams = IF v.valid THEN Append(@, v.provider) ELSE @,
                 !.requeue = @ \/ v.requeue,
                 !.idx = @ + 1],
     cache |-> cache]

\* Sync, lines 205-213: one iteration, validateUpstream with its status write.
AdSyncValidate(accepted) ==
    /\ adSync.pc = "loop" /\ adSync.idx < Len(adSync.actualUpstreams)
    /\ \E upstream \in {adSync.actualUpstreams[adSync.idx + 1]} :
       \E v \in {adValidateUpstream(cancelled, upstream, adSecrets,
                                     validatedSecretVersionsCache, ldapDialer, now)} :
       \E write \in {NeedsWrite(upstream, v.updated)} :
       \E body \in {AdLoopBody(adSync, adCache, AfterUpdateStatus(v, write /\ ~accepted))} :
       \E canAccept \in {~cancelled /\ StoreHolds(adUpstreams, upstream)} :
          /\ accepted => (write /\ canAccept)
          /\ (write /\ ~accepted /\ canAccept) => events < MaxEvents
          /\ events' = IF write /\ ~accepted /\ canAccept THEN events + 1 ELSE events
          /\ adUpstreams' = IF accepted THEN WriteStatus(adUpstreams, v.updated)
                                        ELSE adUpstreams
          /\ adQueue' = (adQueue \/ accepted)
          /\ validatedSecretVersionsCache' = v.versions
          /\ adSync' = [body.sync EXCEPT !.actualUpstreams[adSync.idx + 1] = v.listed]
          /\ adCache' = body.cache
          /\ adPass' = [adPass EXCEPT !.valid = Append(@, v.valid),
                                      !.requeue = Append(@, v.requeue),
                                      !.conditions =
                                          IF adPass.traced THEN Append(@, v.conditions) ELSE @,
                                      !.dialed =
                                          IF adPass.traced THEN Append(@, v.dialed) ELSE @,
                                      !.configs =
                                          IF adPass.traced THEN Append(@, v.provider) ELSE @,
                                      !.recorded =
                                          IF adPass.traced
                                          THEN Append(@, validatedSecretVersionsCache[upstream.name])
                                          ELSE @,
                                      !.recordedAfter =
                                          IF adPass.traced
                                          THEN Append(@, v.versions[upstream.name])
                                          ELSE @,
                                      !.succeeded =
                                          IF adPass.traced /\ v.dialed
                                             /\ ~HasFalseConnection(v.conditions)
                                          THEN @ \cup {<<upstream.name,
                                                         adSecrets[upstream.secretName].resourceVersion>>}
                                          ELSE @,
                                      !.failed =
                                          IF adPass.traced /\ v.dialed
                                             /\ HasFalseConnection(v.conditions)
                                          THEN @ \cup {<<upstream.name,
                                                         adSecrets[upstream.secretName].resourceVersion>>}
                                          ELSE @,
                                      !.statusWrites = IF write THEN @ + 1 ELSE @,
                                      !.rejected = IF write /\ ~accepted THEN @ + 1 ELSE @]
    /\ UNCHANGED <<oidcVars, gcVars, call, mgr, adSecrets, ldapDialer, adSeen, now, cancelled>>

\* A publication that skips the setter for an empty list.
AdPublish_SkipEmpty(cache, validated) == IF validated = <<>> THEN cache ELSE validated

\* Sync, line 215: the cache after SetActiveDirectoryIdentityProviders.
AdPublish(cache, validated) == validated

\* Sync, lines 215-220
AdSyncPublish ==
    /\ adSync.pc = "loop" /\ adSync.idx = Len(adSync.actualUpstreams)
    /\ adCache' = AdPublish(adCache, adSync.validatedUpstreams)
    /\ adQueue' = (adQueue \/ adSync.requeue)
    /\ adPass' = [adPass EXCEPT !.setCalls = @ + 1,
                                !.published = adSync.validatedUpstreams,
                                !.result = IF adSync.requeue THEN "requeue" ELSE "nil"]
    /\ adSync' = AdIdle
    /\ adSeen' = [adSeen EXCEPT !.midPass = FALSE]
    /\ UNCHANGED <<oidcVars, gcVars, call, mgr, adUpstreams, adSecrets, ldapDialer, validatedSecretVersionsCache,
                   now, cancelled, events>>

AdReadSnapshot ==
    /\ adSeen' = [torn |-> adSeen.torn \/ adCache # adPass.published,
                  midPass |-> adSeen.midPass
                              \/ (adSync.pc = "loop" /\ adSync.validatedUpstreams # <<>>)]
    /\ UNCHANGED <<oidcVars, gcVars, call, mgr, adUpstreams, adSecrets, ldapDialer, validatedSecretVersionsCache,
                   adCache, adQueue, adSync, adPass, now, cancelled, events>>

adDriverVars == <<validatedSecretVersionsCache, adCache, adSync, adPass, adSeen>>

AdDeleteUpstream(n) ==
    /\ Event
    /\ n \in NameSet(adUpstreams)
    /\ adUpstreams' = SelectSeq(adUpstreams, LAMBDA u : u.name # n)
    /\ adQueue' = TRUE
    /\ UNCHANGED <<oidcVars, gcVars, call, mgr, adSecrets, ldapDialer, adDriverVars, now, cancelled>>

AdCreateUpstream(n) ==
    /\ Event
    /\ n \notin NameSet(adUpstreams)
    /\ adUpstreams' = Append(adUpstreams, AdUpstream(n, 1, BindSecretNameOf(n)))
    /\ adQueue' = TRUE
    /\ UNCHANGED <<oidcVars, gcVars, call, mgr, adSecrets, ldapDialer, adDriverVars, now, cancelled>>

\* A change of the resource's spec: the store bumps the generation.
AdEditUpstream(n) ==
    /\ Event
    /\ \E i \in 1..Len(adUpstreams) :
          /\ adUpstreams[i].name = n
          /\ adUpstreams[i].generation < MaxGeneration
          /\ adUpstreams' = [adUpstreams EXCEPT ![i].generation = @ + 1]
    /\ adQueue' = TRUE
    /\ UNCHANGED <<oidcVars, gcVars, call, mgr, adSecrets, ldapDialer, adDriverVars, now, cancelled>>

SetBindSecret(name, value) ==
    /\ Event
    /\ adSecrets[name] # value
    /\ adSecrets' = [adSecrets EXCEPT ![name] = value]
    /\ adQueue' = TRUE
    /\ UNCHANGED <<oidcVars, gcVars, call, mgr, adUpstreams, ldapDialer, adDriverVars, now, cancelled>>

SetDialer(value) ==
    /\ Event
    /\ ldapDialer # value
    /\ ldapDialer' = value
    /\ UNCHANGED <<oidcVars, gcVars, call, mgr, adUpstreams, adSecrets, adQueue, adDriverVars, now, cancelled>>

\* ------------------------------------------------- the cache cleaner

\* auth1alpha1.SchemeGroupVersion.Group and a group that is not the
\* concierge's.
ownGroup == "authentication.concierge.pinniped.dev"
foreignGroup == "other.example.com"

kindWebhook == "WebhookAuthenticator"
kindJWT == "JWTAuthenticator"
kindOther == "OtherAuthenticator"

\* authncache.Key
Key(namespace, name, kind, apiGroup) ==
    [namespace |-> namespace, name |-> name, kind |-> kind, apiGroup |-> apiGroup]

\* A resource as the listers return it: namespace and name.
Meta(namespace, name) == [namespace |-> namespace, name |-> name]

WebhookMetas == {Meta("ns1", "n1"), Meta("ns2", "n1")}
JWTMetas == {Meta("ns1", "n1")}

\* The keys the shared cache can hold: the two kinds of the concierge, the
\* same name in another namespace, another group, another kind.
CacheKeys ==
    {Key("ns1", "n1", kindWebhook, ownGroup),
     Key("ns2", "n1", kindWebhook, ownGroup),
     Key("ns1", "n1", kindJWT, ownGroup),
     Key("ns1", "n1", kindWebhook, foreignGroup),
     Key("ns1", "n1", kindOther, ownGroup)}

NoValue == [present |-> FALSE]

\* A cached authenticator: which insertion it came from, and whether it has
\* a Close method.
Value(version, closable) == [present |-> TRUE, version |-> version, closable |-> closable]

\* Webhook authenticators have no Close method; the others have one.
ClosableOf(key) == key.kind # kindWebhook

Versions == 0..(MaxEvents + 1)

\* Sync, lines 357-376: the keys of the listed resources.
AuthenticatorSet(listedWebhooks, listedJWTs) ==
    {Key(w.namespace, w.name, kindWebhook, ownGroup) : w \in listedWebhooks}
        \cup {Key(j.namespace, j.name, kindJWT, ownGroup) : j \in listedJWTs}

\* A filter that takes every key of the cache for one of the concierge's.
OwnKey_Any(key) == TRUE

\* A filter that looks at the group of a key and not at its kind.
OwnKey_AnyKind(key) == key.apiGroup = ownGroup

\* Sync, lines 380-382: the keys the loop does not skip.
OwnKey(key) ==
    ~(key.apiGroup # ownGroup \/ (key.kind # kindWebhook /\ key.kind # kindJWT))

\* Sync, lines 380-383: the key is to be evicted.
Evicts(key, authenticatorSet) == OwnKey(key) /\ key \notin authenticatorSet

\* c.cache.Keys(): the keys present.
CachedKeys(cache) == {k \in CacheKeys : cache[k].present}

GcIdle == [pc |-> "idle", authenticatorSet |-> {}, keys |-> {}, key |-> NoValue,
           value |-> NoValue]

EmptyCache == [k \in CacheKeys |-> NoValue]

\* A Delete that leaves the entry in the cache.
CacheDelete_Keep(cache, key) == cache

\* c.cache.Delete(key)
CacheDelete(cache, key) == [cache EXCEPT ![key] = NoValue]

\* What is remembered of the pass before the current one.
GcNoLast == [result |-> "none", listed |-> {}, after |-> EmptyCache, stores |-> {}]

LastOf(p) == [result |-> p.result, listed |-> p.listed, after |-> p.after,
              stores |-> p.stores \cup p.later]

\* The record of a pass: the keys present, the resources listed and their
\* keys when it began, the keys it read with Get (got), the entries it
\* closed and removed, the keys stored by others while it ran (stores) and after it ended (later), the cache and the
\* result at its end, the list that failed; and over all passes, the
\* entries removed (evicted).
GcNewPass == [before |-> {}, webhooks |-> {}, jwtAuthenticators |-> {},
              listed |-> {}, examined |-> {}, got |-> {}, closed |-> {},
              removed |-> {}, stores |-> {}, later |-> {}, after |-> EmptyCache,
              result |-> "running", failed |-> "", last |-> GcNoLast, evicted |-> {}]

\* Sync, lines 346-379: both lists, the set of keys, the keys of the cache.
GcList ==
    /\ gc.pc = "idle" /\ gcQueue
    /\ gcQueue' = FALSE
    /\ \E set \in {AuthenticatorSet(webhooks, jwtAuthenticators)} :
          /\ gc' = [GcIdle EXCEPT !.pc = "loop", !.authenticatorSet = set,
                                  !.keys = CachedKeys(authnCache)]
          /\ gcPass' = [GcNewPass EXCEPT !.before = CachedKeys(authnCache), !.listed = set,
                                         !.webhooks = webhooks,
                                         !.jwtAuthenticators = jwtAuthenticators,
                                         !.last = LastOf(gcPass),
                                         !.evicted = gcPass.evicted]
    /\ UNCHANGED <<oidcVars, adVars, webhooks, jwtAuthenticators, authnCache, closeCount,
                   call, mgr, now, cancelled, events>>

GcLists == {"WebhookAuthenticators", "JWTAuthenticators"}

\* A pass that takes a list it could not read for an empty one.
GcOnListError_AsEmpty(failed, listedWebhooks) ==
    [abort |-> FALSE,
     authenticatorSet |-> AuthenticatorSet(IF failed = "WebhookAuthenticators"
                                           THEN {} ELSE listedWebhooks, {})]

\* Sync, lines 348-350 and 353-355: Sync returns the error of the list.
GcOnListError(failed, listedWebhooks) == [abort |-> TRUE, authenticatorSet |-> {}]

\* Sync, lines 347-355: the list of WebhookAuthenticators fails, or it
\* succeeds and the list of JWTAuthenticators fails.
GcListFails(failed) ==
    /\ gc.pc = "idle" /\ gcQueue
    /\ gcPass.result # "error"
    /\ \E r \in {GcOnListError(failed, webhooks)} :
          IF r.abort
          THEN /\ gcQueue' = TRUE
               /\ gcPass' = [GcNewPass EXCEPT !.before = CachedKeys(authnCache),
                                              !.after = authnCache,
                                              !.result = "error", !.failed = failed,
                                              !.last = LastOf(gcPass),
                                              !.evicted = gcPass.evicted]
               /\ gc' = gc
          ELSE /\ gcQueue' = FALSE
               /\ gc' = [GcIdle EXCEPT !.pc = "loop",
                                       !.authenticatorSet = r.authenticatorSet,
                                       !.keys = CachedKeys(authnCache)]
               /\ gcPass' = [GcNewPass EXCEPT !.before = CachedKeys(authnCache),
                                              !.listed = r.authenticatorSet,
                                              !.failed = failed,
                                              !.last = LastOf(gcPass),
                                              !.evicted = gcPass.evicted]
    /\ UNCHANGED <<oidcVars, adVars, webhooks, jwtAuthenticators, authnCache, closeCount,
                   call, mgr, now, cancelled, events>>

\* Sync, lines 392-394: the Close calls on the value after this key.
CloseValue(value, count) ==
    IF value.present /\ value.closable THEN count + 1 ELSE count

\* Sync, lines 379-394: the next key of the loop, in the order Keys() gave
\* (any order); a key to evict is read from the cache and closed.
GcExamine(key) ==
    /\ gc.pc = "loop" /\ key \in gc.keys
    /\ IF Evicts(key, gc.authenticatorSet)
       THEN \E value \in {authnCache[key]} :
               /\ closeCount' = IF value.present
                                THEN [closeCount EXCEPT ![<<key, value.version>>] =
                                         CloseValue(value, @)]
                                ELSE closeCount
               /\ gc' = [gc EXCEPT !.pc = "delete", !.key = key, !.value = value]
               /\ gcPass' = [gcPass EXCEPT
                     !.examined = @ \cup {key},
                     !.got = @ \cup {key},
                     !.closed = IF value.present /\ CloseValue(value, 0) > 0
                                THEN @ \cup {<<key, value.version>>} ELSE @]
       ELSE /\ gc' = [gc EXCEPT !.keys = @ \ {key}]
            /\ gcPass' = [gcPass EXCEPT !.examined = @ \cup {key}]
            /\ UNCHANGED closeCount
    /\ UNCHANGED <<oidcVars, adVars, webhooks, jwtAuthenticators, authnCache, gcQueue,
                   call, mgr, now, cancelled, events>>

\* Sync, line 396: c.cache.Delete(key).
GcDelete ==
    /\ gc.pc = "delete"
    /\ authnCache' = CacheDelete(authnCache, gc.key)
    /\ \E gone \in {IF authnCache[gc.key].present /\ ~authnCache'[gc.key].present
                     THEN {<<gc.key, authnCache[gc.key].version>>} ELSE {}} :
          gcPass' = [gcPass EXCEPT !.removed = @ \cup gone, !.evicted = @ \cup gone]
    /\ gc' = [gc EXCEPT !.pc = "loop", !.keys = @ \ {gc.key}, !.key = NoValue,
                        !.value = NoValue]
    /\ UNCHANGED <<oidcVars, adVars, webhooks, jwtAuthenticators, closeCount, gcQueue,
                   call, mgr, now, cancelled, events>>

\* Sync, line 399: the loop is over, Sync returns nil.
GcDone ==
    /\ gc.pc = "loop" /\ gc.keys = {}
    /\ gc' = GcIdle
    /\ gcPass' = [gcPass EXCEPT !.result = "nil", !.after = authnCache]
    /\ UNCHANGED <<oidcVars, adVars, webhooks, jwtAuthenticators, authnCache, closeCount,
                   gcQueue, call, mgr, now, cancelled, events>>

\* New, lines 325-334: a change of a WebhookAuthenticator or of a
\* JWTAuthenticator puts the key on the queue.
SetWebhooks(metas) ==
    /\ events < MaxEvents
    /\ metas # webhooks
    /\ events' = events + 1
    /\ webhooks' = metas
    /\ gcQueue' = TRUE
    /\ UNCHANGED <<oidcVars, adVars, jwtAuthenticators, authnCache, closeCount, gc, gcPass,
                   call, mgr, now, cancelled>>

SetJWTAuthenticators(metas) ==
    /\ events < MaxEvents
    /\ metas # jwtAuthenticators
    /\ events' = events + 1
    /\ jwtAuthenticators' = metas
    /\ gcQueue' = TRUE
    /\ UNCHANGED <<oidcVars, adVars, webhooks, authnCache, closeCount, gc, gcPass,
                   call, mgr, now, cancelled>>

\* Another owner of the cache stores an authenticator under a key.
CacheStore(key) ==
    /\ events < MaxEvents
    /\ events' = events + 1
    /\ authnCache' = [authnCache EXCEPT ![key] = Value(events + 1, ClosableOf(key))]
    /\ gcPass' = IF gc.pc = "idle" THEN [gcPass EXCEPT !.later = @ \cup {key}]
                 ELSE [gcPass EXCEPT !.stores = @ \cup {key}]
    /\ UNCHANGED <<oidcVars, adVars, webhooks, jwtAuthenticators, closeCount, gc, gcQueue,
                   call, mgr, now, cancelled>>

\* New, lines 325-334: the informers' periodic resync delivers the
\* resources again and the key is put on the queue with nothing changed.
GcResync ==
    /\ gc.pc = "idle" /\ ~gcQueue
    /\ gcPass.result = "nil"
    /\ gcQueue' = TRUE
    /\ UNCHANGED <<oidcVars, adVars, webhooks, jwtAuthenticators, authnCache, closeCount,
                   gc, gcPass, call, mgr, now, cancelled, events>>

\* The cache cleaner not constructed: nothing declared, nothing cached.
NoCleaner ==
    /\ webhooks = {}
    /\ jwtAuthenticators = {}
    /\ authnCache = EmptyCache
    /\ closeCount = [kv \in CacheKeys \X Versions |-> 0]
    /\ gc = GcIdle
    /\ gcQueue = FALSE
    /\ gcPass = [GcNewPass EXCEPT !.result = "none"]

NoCall == [fn |-> "none"]

\* The controller manager not started.
NoManager == [started |-> FALSE]

\* ------------------------------------------------------- specification

\* The status an earlier run of the controller wrote at time 0 for a
\* resource it found valid.
ReadyStatus ==
    [phase |-> PhaseReady,
     conditions |->
        <<[Condition(typeClientCredsValid, ConditionTrue, reasonSuccess,
                     "loaded client credentials") EXCEPT !.observedGeneration = 1],
          [Condition(typeOIDCDiscoverySucceeded, ConditionTrue, reasonSuccess,
                     "discovered issuer configuration") EXCEPT !.observedGeneration = 1]>>]

InitUpstreams(name) ==
    {[Upstream(name, 1, IssuerOf(name), SecretNameOf(name)) EXCEPT !.status = st] :
        st \in {EmptyStatus, ReadyStatus}}

InitStores ==
    {<<a, b>> : a \in InitUpstreams("a"), b \in InitUpstreams("b")}
        \cup {<<a>> : a \in InitUpstreams("a")}

Init ==
    /\ upstreams \in InitStores
    /\ secrets \in [SecretNames -> {NoSecret, GoodSecret}]
    /\ discovery \in [Issuers -> {NoProvider, Provider(HTTPSAuthURL)}]
    /\ now = 1
    /\ cancelled = FALSE
    /\ validatorCache = [i \in Issuers |-> NoEntry]
    /\ idpCache = <<>>
    /\ queue = TRUE
    /\ pc = "idle"
    /\ actualUpstreams = <<>>
    /\ idx = 0
    /\ validatedUpstreams = <<>>
    /\ requeue = FALSE
    /\ lastResult = "none"
    /\ pass = NoPass
    /\ prev = NoSummary
    /\ lastSet = <<>>
    /\ seen = [torn |-> FALSE, midPass |-> FALSE]
    /\ events = 0
    /\ adUpstreams = <<>>
    /\ adSecrets = [n \in BindSecretNames |-> NoSecret]
    /\ ldapDialer = "ok"
    /\ validatedSecretVersionsCache = [n \in AdNames |-> ""]
    /\ adCache = <<>>
    /\ adQueue = FALSE
    /\ adSync = AdIdle
    /\ adPass = [AdNewPass EXCEPT !.result = "none"]
    /\ adSeen = [torn |-> FALSE, midPass |-> FALSE]
    /\ NoCleaner
    /\ call = NoCall
    /\ mgr = NoManager

Next ==
    \/ SyncList
    \/ \E accepted \in BOOLEAN : SyncValidate(accepted)
    \/ SyncPublish
    \/ \E n \in Names : DeleteUpstream(n)
    \/ \E n \in Names : CreateUpstream(n)
    \/ \E n \in Names : EditUpstream(n)
    \/ \E s \in SecretNames, v \in SecretStates : SetSecret(s, v)
    \/ \E i \in Issuers, v \in DiscoveryStates : SetDiscovery(i, v)
    \/ \E d \in {1, validatorCacheTTL} : Tick(d)
    \/ Cancel

Spec == Init /\ [][Next]_vars

\* Both drivers side by side, each with its own worker and queue.
InitDrivers ==
    /\ upstreams = <<Upstream("a", 1, IssuerOf("a"), SecretNameOf("a")),
                     Upstream("b", 1, IssuerOf("b"), SecretNameOf("b"))>>
    /\ secrets = [n \in SecretNames |-> GoodSecret]
    /\ discovery = [i \in Issuers |-> Provider(HTTPSAuthURL)]
    /\ now = 1
    /\ cancelled = FALSE
    /\ validatorCache = [i \in Issuers |-> NoEntry]
    /\ idpCache = <<>>
    /\ queue = TRUE
    /\ pc = "idle"
    /\ actualUpstreams = <<>>
    /\ idx = 0
    /\ validatedUpstreams = <<>>
    /\ requeue = FALSE
    /\ lastResult = "none"
    /\ pass = NoPass
    /\ prev = NoSummary
    /\ lastSet = <<>>
    /\ seen = [torn |-> FALSE, midPass |-> FALSE]
    /\ events = 0
    /\ adUpstreams \in {<<AdUpstream("x", 1, BindSecretNameOf("x")),
                           AdUpstream("y", 1, BindSecretNameOf("y"))>>,
                         <<AdUpstream("x", 1, BindSecretNameOf("x"))>>}
    /\ adSecrets \in {[n \in BindSecretNames |-> IF n = "bx" THEN bx ELSE GoodBindSecret] :
                          bx \in {NoSecret, GoodBindSecret}}
    /\ ldapDialer \in {"ok", "dial failed"}
    /\ validatedSecretVersionsCache = [n \in AdNames |-> ""]
    /\ adCache = <<>>
    /\ adQueue = TRUE
    /\ adSync = AdIdle
    /\ adPass = [AdNewPass EXCEPT !.result = "none"]
    /\ adSeen = [torn |-> FALSE, midPass |-> FALSE]
    /\ NoCleaner
    /\ call = NoCall
    /\ mgr = NoManager

NextDrivers ==
    \/ SyncList
    \/ SyncListFails
    \/ \E accepted \in BOOLEAN : SyncValidate(accepted)
    \/ SyncPublish
    \/ ReadSnapshot
    \/ \E n \in Names : DeleteUpstream(n)
    \/ \E i \in Issuers : SetDiscovery(i, NoProvider)
    \/ AdSyncList
    \/ AdSyncListFails
    \/ \E accepted \in BOOLEAN : AdSyncValidate(accepted)
    \/ AdSyncPublish
    \/ AdReadSnapshot
    \/ \E n \in AdNames : AdDeleteUpstream(n)
    \/ \E n \in AdNames : AdCreateUpstream(n)
    \/ \E n \in BindSecretNames, v \in {NoSecret, GoodBindSecret} : SetBindSecret(n, v)
    \/ \E v \in {"ok", "dial failed"} : SetDialer(v)

SpecDrivers == InitDrivers /\ [][NextDrivers]_vars

\* A third specification for the eventual properties: no cancellation, and
\* the worker of the single-key queue keeps running (singletonWorker), so a
\* pass that can start does start and a pass under way finishes.
NextLive ==
    \/ SyncList
    \/ \E accepted \in BOOLEAN : SyncValidate(accepted)
    \/ SyncPublish
    \/ \E n \in Names : DeleteUpstream(n)
    \/ \E s \in SecretNames, v \in {NoSecret, GoodSecret} : SetSecret(s, v)
    \/ \E i \in Issuers, v \in {NoProvider, Provider(HTTPSAuthURL)} : SetDiscovery(i, v)

\* Sync, lines 104-111: a step of the loop. The steps that raise idx by one
\* inside the loop are exactly the steps of SyncValidate, and one is possible
\* whenever a listed resource is left.
ValidateStep == pc = "loop" /\ idx < Len(actualUpstreams) /\ idx' = idx + 1

Fairness ==
    /\ WF_vars(SyncList)
    /\ WF_idx(ValidateStep)
    /\ WF_vars(SyncPublish)

SpecLive == Init /\ [][NextLive]_vars /\ Fairness

\* ------------------------------------------------------------ properties

Ended(p) == p.result \in {"nil", "requeue"}

AllTrue(conditions) ==
    \A k \in 1..Len(conditions) : conditions[k].status = ConditionTrue

\* The k-th smallest element of a set of indexes.
Nth(S, k) == CHOOSE i \in S : Cardinality({j \in S : j <= i}) = k

\* The names of the listed resources at the indexes in S, in listing order.
NamesAt(listed, S) == [k \in 1..Cardinality(S) |-> listed[Nth(S, k)].name]

ValidIndexes(p) == {i \in 1..Len(p.conditions) : AllTrue(p.conditions[i])}

HasReason(p, reason) ==
    \E i \in 1..Len(p.conditions) :
        \E k \in 1..Len(p.conditions[i]) : p.conditions[i][k].reason = reason

\* C1: at the end of an OIDC pass the list handed to SetIDPList holds
\* exactly the listed resources whose ClientCredentialsValid and
\* OIDCDiscoverySucceeded conditions of that pass are both True, in listing
\* order, each with a client ID and an https authorization endpoint.
C1_SnapshotCorrectness ==
    Ended(pass) =>
        /\ SeqNames(idpCache) = NamesAt(pass.listed, ValidIndexes(pass))
        /\ \A k \in 1..Len(idpCache) :
              /\ idpCache[k].clientID # ""
              /\ ParseURL(idpCache[k].authorizationURL).scheme = "https"

C1_Witness ==
    /\ Ended(pass)
    /\ Len(pass.listed) = 2
    /\ ValidIndexes(pass) = {2}
    /\ SeqNames(idpCache) = <<"b">>

AdValidIndexes(p) == {i \in 1..Len(p.valid) : p.valid[i]}

\* C2: every pass of the OIDC and of the Active Directory driver whose list
\* succeeds calls the cache setter exactly once, at its end, and the cache
\* then holds the complete list built in that pass and nothing else, also
\* when that list is empty.
C2_FullReplacement ==
    /\ pass.result = "running" => pass.setCalls = 0
    /\ Ended(pass) =>
          /\ pass.setCalls = 1
          /\ SeqNames(idpCache) = NamesAt(pass.listed, ValidIndexes(pass))
    /\ adPass.result = "running" => adPass.setCalls = 0
    /\ Ended(adPass) =>
          /\ adPass.setCalls = 1
          /\ SeqNames(adCache) = NamesAt(adPass.listed, AdValidIndexes(adPass))

C2_Witness ==
    /\ Ended(pass) /\ pass.setCalls = 1 /\ Len(idpCache) = 2
    /\ Ended(adPass) /\ adPass.setCalls = 1
    /\ adPass.before # <<>> /\ adCache = <<>>

\* C3: a pass whose context is cancelled publishes the snapshot it would
\* have published without the cancellation or publishes nothing: a pass
\* that called the setter dropped no resource only because its validation
\* was aborted.
C3_CancellationSafe ==
    (Ended(pass) /\ pass.setCalls > 0) => pass.aborted = {}

\* C4: a reader of either cache, at any moment, sees a list some pass
\* published whole; the list a pass is building is not visible before the
\* setter call.
C4_ReadersSeePublishedLists ==
    /\ ~seen.torn
    /\ ~adSeen.torn
    /\ idpCache = lastSet
    /\ adCache = adPass.published

C4_Witness ==
    /\ seen.midPass /\ adSeen.midPass
    /\ pc = "loop" /\ validatedUpstreams # <<>> /\ validatedUpstreams # idpCache

\* C5: a pass of either driver whose list fails returns the error, has
\* validated nothing, written no status and called no setter, and the cache
\* is as it was.
C5_ListFailure ==
    /\ pass.result = "error" =>
          /\ lastResult = "error"
          /\ pass.conditions = <<>> /\ pass.writes = <<>> /\ pass.setCalls = 0
          /\ idpCache = prev.published
          /\ idpCache = lastSet
    /\ adPass.result = "error" =>
          /\ adPass.valid = <<>> /\ adPass.statusWrites = 0 /\ adPass.setCalls = 0
          /\ adCache = adPass.before
          /\ adCache = adPass.published

C5_Witness ==
    /\ pass.result = "error" /\ Len(idpCache) = 2
    /\ adPass.result = "error" /\ adCache # <<>>

\* C6: an OIDC pass in which a resource fails with reason Unreachable still
\* publishes the snapshot of the valid resources and returns the synthetic
\* requeue.
C6_TransientRequeue ==
    (Ended(pass) /\ HasReason(pass, reasonUnreachable)) =>
        /\ pass.result = "requeue"
        /\ lastResult = "requeue"
        /\ pass.setCalls = 1
        /\ SeqNames(idpCache) = NamesAt(pass.listed, ValidIndexes(pass))

C6_Witness ==
    /\ Ended(pass) /\ HasReason(pass, reasonUnreachable)
    /\ Len(pass.listed) = 2 /\ Len(idpCache) = 1
    /\ lastResult = "requeue"

\* C7: an OIDC pass requests a requeue only when a resource failed with the
\* transient reason Unreachable; SecretNotFound, SecretWrongType,
\* SecretMissingKeys and InvalidResponse alone end the pass with nil.
C7_PermanentNotRequeued ==
    (Ended(pass) /\ ~HasReason(pass, reasonUnreachable)) => pass.result = "nil"

\* The resource of this name is in the store and its validation succeeds
\* against the secrets, the discovery cache and the issuers as they are.
Validates(n) ==
    \E i \in 1..Len(upstreams) :
        /\ upstreams[i].name = n
        /\ validateUpstream(FALSE, upstreams[i], secrets, validatorCache, discovery, now).valid

AllValidate ==
    \A i \in 1..Len(upstreams) :
        validateUpstream(FALSE, upstreams[i], secrets, validatorCache, discovery, now).valid

\* No resource in the store fails, as things are, with the transient
\* reason Unreachable.
NoneUnreachable ==
    \A i \in 1..Len(upstreams) :
        LET c == validateUpstream(FALSE, upstreams[i], secrets, validatorCache,
                                  discovery, now).conditions
        IN \A k \in 1..Len(c) : c[k].reason # reasonUnreachable

\* C8: under fair scheduling of the requeued key, when from some point on
\* the validation of a resource succeeds and no resource fails with
\* Unreachable, that resource is from some point on in the published
\* snapshot and a pass ends without requesting a requeue.
C8_SelfHealing ==
    \A n \in Names :
        (<>[](Validates(n) /\ NoneUnreachable)) =>
            /\ <>[](n \in NameSet(idpCache))
            /\ <>(lastResult = "nil")

\* The part of C8 that the driver keeps: a resource whose validation
\* succeeds from some point on is from some point on in the published
\* snapshot, and when the validation of every resource succeeds the passes
\* from some point on end without requesting a requeue.
SelfHealingWhenAllValidate ==
    /\ \A n \in Names : (<>[]Validates(n)) => <>[](n \in NameSet(idpCache))
    /\ (<>[]AllValidate) => <>[](lastResult = "nil")

Quiet == Ended(prev) /\ Ended(pass) /\ ~prev.dirty /\ ~pass.dirty

NoWrites(p) == \A i \in 1..Len(p.writes) : p.writes[i] = 0

PassHits(p) == {p.listed[i].issuer : i \in {j \in 1..Len(p.called) : ~p.called[j]}}

BothTypes == {typeClientCredsValid, typeOIDCDiscoverySucceeded}

ConditionOf(conditions, type) == conditions[FindOld(conditions, type)]

\* C10: in the status a pass computes, a condition keeps the transition
\* time of the listed condition of its type when their statuses are equal,
\* and carries the time of the pass when the status differs or the type
\* was not there.
C10_TransitionTime ==
    \A i \in 1..Len(pass.updated) : \A t \in BothTypes :
        LET old == pass.listed[i].status.conditions
            new == ConditionOf(pass.updated[i].status.conditions, t)
            computed == ConditionOf(pass.conditions[i], t)
        IN /\ new.status = computed.status
           /\ IF FindOld(old, t) # 0 /\ ConditionOf(old, t).status = computed.status
              THEN new.lastTransitionTime = ConditionOf(old, t).lastTransitionTime
              ELSE new.lastTransitionTime = pass.times[i]

C10_Witness ==
    \E i \in 1..Len(pass.updated) :
        LET old == pass.listed[i].status.conditions
            new == pass.updated[i].status.conditions
        IN /\ Len(old) = 2
           /\ ConditionOf(old, typeClientCredsValid).status = ConditionTrue
           /\ ConditionOf(new, typeClientCredsValid).status = ConditionFalse
           /\ ConditionOf(new, typeClientCredsValid).lastTransitionTime = pass.times[i]
           /\ ConditionOf(new, typeOIDCDiscoverySucceeded).lastTransitionTime
                 = ConditionOf(old, typeOIDCDiscoverySucceeded).lastTransitionTime
           /\ ConditionOf(new, typeOIDCDiscoverySucceeded).lastTransitionTime < pass.times[i]

\* ------------------------------------------- the status a pass writes

\* A condition type the OIDC validators do not produce, as another writer
\* of the status can leave it in the list.
typeForeign == "TLSConfigurationValid"

StoredTypes == {typeClientCredsValid, typeOIDCDiscoverySucceeded, typeForeign}

\* A condition as an earlier write at time 0 left it in the store.
StoredCondition(type, status) ==
    [Condition(type, status,
               IF status = ConditionTrue THEN reasonSuccess ELSE reasonInvalidResponse,
               "stored") EXCEPT !.observedGeneration = 1]

StoredConditions ==
    {StoredCondition(t, st) : t \in StoredTypes, st \in {ConditionTrue, ConditionFalse}}

\* The condition lists the lister can hand to a pass: any order, and a type
\* possibly twice.
StoredLists ==
    {<<>>} \cup {<<c>> : c \in StoredConditions}
           \cup {<<c, e>> : c \in StoredConditions, e \in StoredConditions}

StoredStatus(conditions) ==
    [phase |-> IF \E k \in 1..Len(conditions) : conditions[k].status = ConditionFalse
               THEN PhaseError ELSE PhaseReady,
     conditions |-> conditions]

\* The controller idle with an empty cache and its key queued, and the
\* Active Directory controller without resources.
FreshWatchers ==
    /\ now = 1
    /\ cancelled = FALSE
    /\ validatorCache = [i \in Issuers |-> NoEntry]
    /\ idpCache = <<>>
    /\ queue = TRUE
    /\ pc = "idle"
    /\ actualUpstreams = <<>>
    /\ idx = 0
    /\ validatedUpstreams = <<>>
    /\ requeue = FALSE
    /\ lastResult = "none"
    /\ pass = NoPass
    /\ prev = NoSummary
    /\ lastSet = <<>>
    /\ seen = [torn |-> FALSE, midPass |-> FALSE]
    /\ events = 0
    /\ adUpstreams = <<>>
    /\ adSecrets = [n \in BindSecretNames |-> NoSecret]
    /\ ldapDialer = "ok"
    /\ validatedSecretVersionsCache = [n \in AdNames |-> ""]
    /\ adCache = <<>>
    /\ adQueue = FALSE
    /\ adSync = AdIdle
    /\ adPass = [AdNewPass EXCEPT !.result = "none"]
    /\ adSeen = [torn |-> FALSE, midPass |-> FALSE]

FreshControllers == FreshWatchers /\ NoCleaner /\ call = NoCall /\ mgr = NoManager

\* One resource with any stored status list; its secret and its issuer good
\* or failing.
InitStatus ==
    /\ \E conditions \in StoredLists :
          upstreams = <<[Upstream("a", 1, IssuerOf("a"), SecretNameOf("a"))
                            EXCEPT !.status = StoredStatus(conditions)]>>
    /\ secrets \in {[n \in SecretNames |-> IF n = "s1" THEN v ELSE GoodSecret] :
                        v \in {NoSecret, GoodSecret}}
    /\ discovery \in {[i \in Issuers |-> IF i = "i1" THEN v ELSE Provider(HTTPSAuthURL)] :
                        v \in {NoProvider, Provider(HTTPSAuthURL)}}
    /\ FreshControllers

NextStatus ==
    \/ SyncList
    \/ \E accepted \in BOOLEAN : SyncValidate(accepted)
    \/ SyncPublish
    \/ \E v \in {NoSecret, GoodSecret} : SetSecret("s1", v)
    \/ \E v \in {NoProvider, Provider(HTTPAuthURL)} : SetDiscovery("i1", v)
    \/ Tick(1)

SpecStatus == InitStatus /\ [][NextStatus]_vars

TypesUnique(conditions) ==
    \A j, k \in 1..Len(conditions) :
        conditions[j].type = conditions[k].type => j = k

\* C11: a pass that reads a status list with at most one condition per type
\* computes, and writes, a status list with at most one condition per type.
C11_TypesStayUnique ==
    \A i \in 1..Len(pass.updated) :
        TypesUnique(pass.listed[i].status.conditions)
            => /\ TypesUnique(pass.updated[i].status.conditions)
               /\ \A k \in 1..Len(upstreams) :
                     upstreams[k].name = pass.updated[i].name
                        => TypesUnique(upstreams[k].status.conditions)

C11_Witness ==
    /\ Len(pass.updated) = 1 /\ pass.writes = <<1>> /\ pass.rejected = 0
    /\ Len(pass.listed[1].status.conditions) = 2
    /\ pass.listed[1].status.conditions[1].type = typeForeign
    /\ pass.listed[1].status.conditions[2].type = typeClientCredsValid
    /\ Len(upstreams[1].status.conditions) = 3
    /\ upstreams[1].status = pass.updated[1].status

TypesAscending(conditions) ==
    \A j, k \in 1..Len(conditions) :
        j < k => ~TypeLess(conditions[k].type, conditions[j].type)

\* C12: in every status a pass computes and writes, the conditions are in
\* ascending order of type, whatever the order of the list read.
C12_SortedByType ==
    /\ \A i \in 1..Len(pass.updated) : TypesAscending(pass.updated[i].status.conditions)
    /\ \A i \in 1..Len(pass.updated) : \A k \in 1..Len(upstreams) :
          (pass.writes[i] = 1 /\ upstreams[k] = pass.updated[i])
             => TypesAscending(upstreams[k].status.conditions)

C12_Witness ==
    /\ Len(pass.updated) = 1 /\ pass.writes = <<1>>
    /\ ~TypesAscending(pass.listed[1].status.conditions)
    /\ TypesUnique(pass.listed[1].status.conditions)
    /\ Len(pass.updated[1].status.conditions) = 3
    /\ upstreams[1] = pass.updated[1]

HasFalse(conditions) ==
    \E k \in 1..Len(conditions) : conditions[k].status = ConditionFalse

\* C13: in every status a pass computes, the phase is Error exactly when a
\* condition of the resulting list has status False, and Ready otherwise.
C13_PhaseRule ==
    \A i \in 1..Len(pass.updated) :
        /\ pass.updated[i].status.phase \in {PhaseReady, PhaseError}
        /\ pass.updated[i].status.phase = PhaseError
              <=> HasFalse(pass.updated[i].status.conditions)

\* ------------------------------------------------ validateSecret alone

\* The Secrets validateSecret can meet: none, or one of either type with
\* each key present or not.
SecretInputs ==
    {NoSecret} \cup {Secret(t, id, pw) : t \in {oidcClientSecretType, otherSecretType},
                                        id \in {"", "id"}, pw \in {"", "pw"}}

InitSecret ==
    /\ upstreams = <<Upstream("a", 1, IssuerOf("a"), SecretNameOf("a")),
                     Upstream("b", 1, IssuerOf("b"), SecretNameOf("b"))>>
    /\ secrets \in [SecretNames -> SecretInputs]
    /\ discovery = [i \in Issuers |-> Provider(HTTPSAuthURL)]
    /\ FreshControllers

\* validateUpstream, lines 122-127: validateSecret on a fresh result.
CallValidateSecret(i) ==
    /\ i \in 1..Len(upstreams)
    /\ call' = [fn |-> "validateSecret",
                upstream |-> upstreams[i],
                secret |-> secrets[upstreams[i].secretName],
                out |-> validateSecret(upstreams[i], Result(upstreams[i].name), secrets)]
    /\ UNCHANGED <<oidcVars, adVars, gcVars, mgr, now, cancelled, events>>

NextSecret == \E i \in 1..2 : CallValidateSecret(i)

SpecSecret == InitSecret /\ [][NextSecret]_vars

\* C14: validateSecret returns one ClientCredentialsValid condition, chosen
\* by the first failing check in the order lookup (SecretNotFound), type
\* (SecretWrongType), keys (SecretMissingKeys), else True/Success; the
\* result gets the credentials only with Success.
C14_SecretValidationOrder ==
    call.fn = "validateSecret" =>
        LET sec == call.secret
            c == call.out.cond
            fresh == Result(call.upstream.name)
        IN /\ c.type = typeClientCredsValid
           /\ IF ~sec.found
              THEN c.status = ConditionFalse /\ c.reason = reasonNotFound
              ELSE IF sec.type # oidcClientSecretType
              THEN c.status = ConditionFalse /\ c.reason = reasonWrongType
              ELSE IF sec.clientID = "" \/ sec.clientSecret = ""
              THEN c.status = ConditionFalse /\ c.reason = reasonMissingKeys
              ELSE /\ c.status = ConditionTrue /\ c.reason = reasonSuccess
                   /\ call.out.result = [fresh EXCEPT !.clientID = sec.clientID]
           /\ c.reason # reasonSuccess => call.out.result = fresh

C14_Witness ==
    /\ call.fn = "validateSecret"
    /\ call.secret = Secret(otherSecretType, "", "")
    /\ call.out.cond.reason = reasonWrongType
    /\ call.out.result.clientID = ""

\* ------------------------------------------------- the discovery cache

\* C15: a validation of an issuer whose last successful discovery is less
\* than validatorCacheTTL (15 minutes) old does not invoke the transport
\* and leaves the cache alone; one with no entry or an expired entry
\* invokes it, and a successful answer is cached for 15 minutes from then.
C15_DiscoveryCaching ==
    [][(pc = "loop" /\ idx' = idx + 1) =>
          LET issuer == actualUpstreams[idx + 1].issuer
              entry == validatorCache[issuer]
              unexpired == entry.cached /\ now < entry.expiry
              called == pass'.called[idx + 1]
              answered == ~cancelled /\ ~discovery[issuer].err
          IN /\ unexpired => (~called /\ validatorCache' = validatorCache)
             /\ ~unexpired => called
             /\ (called /\ answered) =>
                   validatorCache' = [validatorCache EXCEPT ![issuer] =
                        [cached |-> TRUE, provider |-> discovery[issuer],
                         expiry |-> now + 15]]
             /\ (called /\ ~answered) => validatorCache' = validatorCache]_vars

C15_Witness ==
    \E i \in 1..Len(pass.called) :
        /\ pass.listed[i].issuer \in prev.hits
        /\ pass.called[i]
        /\ pass.times[i] = 1 + validatorCacheTTL
        /\ validatorCache[pass.listed[i].issuer].cached
        /\ validatorCache[pass.listed[i].issuer].expiry = pass.times[i] + validatorCacheTTL

\* The provider a validation works with: the unexpired cache entry, else the
\* transport's answer.
ProviderUsed(issuer) ==
    IF validatorCache[issuer].cached /\ now < validatorCache[issuer].expiry
    THEN validatorCache[issuer].provider
    ELSE IF cancelled THEN NoProvider ELSE discovery[issuer]

InsecureEndpoint(provider) ==
    /\ ~provider.err
    /\ Len(provider.authURL) = 2
    /\ provider.authURL[1] # "https"

\* C16: when the authorization endpoint of the provider a validation works
\* with, fresh or cached, has a scheme other than https, the condition is
\* OIDCDiscoverySucceeded = False / InvalidResponse, the result gets no
\* authorization URL, the resource is not added to the list of the pass and
\* is not in the snapshot the pass publishes.
C16_SchemeEnforcement ==
    /\ [][(pc = "loop" /\ idx' = idx + 1
            /\ InsecureEndpoint(ProviderUsed(actualUpstreams[idx + 1].issuer))) =>
             LET upstream == actualUpstreams[idx + 1]
                 c == pass'.conditions[idx + 1][2]
                 out == validateIssuer(cancelled, upstream, Result(upstream.name),
                                       validatorCache, discovery, now)
             IN /\ c.type = typeOIDCDiscoverySucceeded
                /\ c.status = ConditionFalse
                /\ c.reason = reasonInvalidResponse
                /\ out.cond = c
                /\ out.result.authorizationURL = NoURL
                /\ validatedUpstreams' = validatedUpstreams]_vars
    /\ [](Ended(pass) =>
             \A i \in 1..Len(pass.conditions) :
                 pass.conditions[i][2].reason = reasonInvalidResponse
                     => \A k \in 1..Len(idpCache) : idpCache[k].name # pass.listed[i].name)

C16_Witness ==
    /\ Ended(pass)
    /\ \E i \in 1..Len(pass.called) :
          /\ ~pass.called[i]
          /\ pass.conditions[i][2].reason = reasonInvalidResponse
          /\ validatorCache[pass.listed[i].issuer].provider = Provider(HTTPAuthURL)
          /\ pass.listed[i].name \notin NameSet(idpCache)
          /\ pass.conditions[i][1].status = ConditionTrue

\* ------------------------------------------------- rejected status writes

\* C17: a pass of either driver in which a status write was rejected still
\* validates every listed resource, calls the setter once with the valid
\* ones, and returns what the validations alone decide (for OIDC: requeue
\* exactly when a resource is invalid; for Active Directory: requeue
\* exactly when a validation asked for it).
C17_WriteFailureNonFatal ==
    /\ (Ended(pass) /\ pass.rejected > 0) =>
          /\ Len(pass.conditions) = Len(pass.listed)
          /\ pass.setCalls = 1
          /\ SeqNames(idpCache) = NamesAt(pass.listed, ValidIndexes(pass))
          /\ pass.result = "requeue" <=> ValidIndexes(pass) # 1..Len(pass.listed)
    /\ (Ended(adPass) /\ adPass.rejected > 0) =>
          /\ Len(adPass.valid) = Len(adPass.listed)
          /\ adPass.setCalls = 1
          /\ SeqNames(adCache) = NamesAt(adPass.listed, AdValidIndexes(adPass))
          /\ adPass.result = "requeue" <=> \E i \in 1..Len(adPass.requeue) : adPass.requeue[i]

C17_Witness ==
    /\ Ended(pass) /\ pass.rejected = 1
    /\ pass.writes = <<1, 1>>
    /\ upstreams[1].status = EmptyStatus
    /\ upstreams[2].status # EmptyStatus
    /\ SeqNames(idpCache) = <<"a", "b">>
    /\ pass.result = "nil"

\* ------------------------------------------------- the cache cleaner alone

\* The cache cleaner with its two informers synced and the cache as the
\* other controllers left it; the upstream watchers are not running.
InitGC ==
    /\ FreshWatchers
    /\ upstreams = <<>>
    /\ secrets = [n \in SecretNames |-> NoSecret]
    /\ discovery = [i \in Issuers |-> NoProvider]
    /\ webhooks \in {{Meta("ns1", "n1")}, WebhookMetas}
    /\ jwtAuthenticators = {}
    /\ \E present \in SUBSET CacheKeys :
          authnCache = [k \in CacheKeys |->
                           IF k \in present THEN Value(0, ClosableOf(k)) ELSE NoValue]
    /\ closeCount = [kv \in CacheKeys \X Versions |-> 0]
    /\ gc = GcIdle
    /\ gcQueue = TRUE
    /\ gcPass = [GcNewPass EXCEPT !.result = "none"]
    /\ call = NoCall
    /\ mgr = NoManager

NextGC ==
    \/ GcList
    \/ \E failed \in GcLists : GcListFails(failed)
    \/ \E key \in CacheKeys : GcExamine(key)
    \/ GcDelete
    \/ GcDone
    \/ GcResync
    \/ \E metas \in SUBSET WebhookMetas : SetWebhooks(metas)
    \/ \E metas \in SUBSET JWTMetas : SetJWTAuthenticators(metas)
    \/ \E key \in CacheKeys : CacheStore(key)

SpecGC == InitGC /\ [][NextGC]_vars

\* The key names a resource none of the listed ones matches in kind,
\* namespace and name, and is of one of the two kinds in the concierge's
\* group.
Orphan(key, p) ==
    /\ key.apiGroup = ownGroup
    /\ \/ key.kind = kindWebhook /\ Meta(key.namespace, key.name) \notin p.webhooks
       \/ key.kind = kindJWT /\ Meta(key.namespace, key.name) \notin p.jwtAuthenticators

\* C18: after a pass during which nobody else stored into the cache, the
\* keys of the cache are the keys it held when the pass began minus the
\* WebhookAuthenticator and JWTAuthenticator keys of the concierge's group
\* that match no listed resource; so no key was added and no key of a
\* listed resource was removed.
C18_ExactSetDifference ==
    (gcPass.result = "nil" /\ gcPass.stores = {}) =>
        /\ CachedKeys(gcPass.after) = {k \in gcPass.before : ~Orphan(k, gcPass)}
        /\ CachedKeys(gcPass.after) \subseteq gcPass.before
        /\ \A k \in gcPass.before : k \in gcPass.listed => k \in CachedKeys(gcPass.after)

C18_Witness ==
    /\ gcPass.result = "nil" /\ gcPass.stores = {}
    /\ gcPass.before = CacheKeys
    /\ gcPass.webhooks = {Meta("ns1", "n1")}
    /\ CachedKeys(gcPass.after) =
          {Key("ns1", "n1", kindWebhook, ownGroup),
           Key("ns1", "n1", kindWebhook, foreignGroup),
           Key("ns1", "n1", kindOther, ownGroup)}

\* The cache entries there can be: a key and the insertion it came from.
Entries == CacheKeys \X Versions

\* C19: over all passes, no value is closed more than once, every entry a
\* pass removed whose value has a Close method was closed exactly once, and
\* no value is closed under a key the pass listed.
C19_ReleaseExactlyOnce ==
    /\ \A e \in Entries : closeCount[e] <= 1
    /\ \A e \in gcPass.evicted : ClosableOf(e[1]) => closeCount[e] = 1
    /\ \A e \in gcPass.closed : e[1] \notin gcPass.listed

\* The same for the entries removed by a pass during which nobody else
\* stored into the cache.
ReleaseOnceInQuietPass ==
    gcPass.stores = {} =>
        /\ \A e \in gcPass.removed : ClosableOf(e[1]) => closeCount[e] = 1
        /\ \A e \in gcPass.closed : closeCount[e] = 1 /\ e[1] \notin gcPass.listed

\* C20: a pass that ended with the same resources listed as the pass before
\* it, with nothing stored into the cache since that pass read the keys,
\* removed nothing and closed nothing, and left the cache as that pass had
\* left it.
C20_GcIdempotent ==
    (/\ gcPass.result = "nil" /\ gcPass.last.result = "nil"
     /\ gcPass.listed = gcPass.last.listed
     /\ gcPass.last.stores = {} /\ gcPass.stores = {}) =>
        /\ gcPass.removed = {}
        /\ gcPass.closed = {}
        /\ gcPass.after = gcPass.last.after

C20_Witness ==
    /\ gcPass.result = "nil" /\ gcPass.last.result = "nil"
    /\ gcPass.listed = gcPass.last.listed
    /\ gcPass.last.stores = {} /\ gcPass.stores = {}
    /\ gcPass.evicted = {<<Key("ns1", "n1", kindJWT, ownGroup), 0>>,
                         <<Key("ns2", "n1", kindWebhook, ownGroup), 0>>}
    /\ closeCount[<<Key("ns1", "n1", kindJWT, ownGroup), 0>>] = 1
    /\ gcPass.removed = {}
    /\ Key("ns1", "n1", kindWebhook, ownGroup) \in CachedKeys(gcPass.after)

\* The keys of another group or of another kind.
ForeignKeys ==
    {k \in CacheKeys : k.apiGroup # ownGroup \/ k.kind \notin {kindWebhook, kindJWT}}

\* C21: a pass never reads with Get, closes or deletes the entry of a key
\* of another group or of another kind, whatever resources are listed; such
\* an entry present when the pass began is still in the cache.
C21_ForeignUntouched ==
    \A k \in ForeignKeys :
        /\ k \notin gcPass.got
        /\ gc.key # k
        /\ \A v \in Versions :
              /\ closeCount[<<k, v>>] = 0
              /\ <<k, v>> \notin gcPass.closed \cup gcPass.evicted
        /\ k \in gcPass.before => authnCache[k].present

C21_Witness ==
    /\ gcPass.result = "nil"
    /\ gcPass.webhooks = {} /\ gcPass.jwtAuthenticators = {}
    /\ gcPass.before = CacheKeys
    /\ gcPass.examined = CacheKeys
    /\ CachedKeys(gcPass.after) = ForeignKeys

\* ------------------------------------------------ the controller manager

\* const singletonWorker
singletonWorker == 1

\* The two watchers whose constructors are in the source.
Kinds == {"oidc", "activedirectory"}

\* What an informer delivers: a provider resource or a secret of a type.
Provided(name) == [informer |-> "providers", name |-> name, type |-> ""]
Secreted(name, type) == [informer |-> "secrets", name |-> name, type |-> type]

WatchedObjects ==
    {Provided("a"), Provided("b"),
     Secreted("s", oidcClientSecretType),
     Secreted("t", ldapBindAccountSecretType)}

\* A queue key made of the name of the object that changed.
SingletonQueue_PerObject(obj) == [namespace |-> "", name |-> obj.name]

\* pinnipedcontroller.SingletonQueue(): the parent function maps every
\* object to one and the same key.
SingletonQueue(obj) == [namespace |-> "", name |-> ""]

\* The filters of New (OIDC, lines 87-91) and of newInternal (Active
\* Directory, lines 183-192): the keys an event of the object adds.
FilterKeys(kind, obj) ==
    IF kind = "oidc"
    THEN {SingletonQueue(obj)}
    ELSE IF obj.informer = "providers" \/ obj.type = ldapBindAccountSecretType
         THEN {SingletonQueue(obj)}
         ELSE {}

\* A manager that starts two workers for a controller.
Workers_Two(kind) == 2

\* prepareControllers, lines 258-285: WithController(..., singletonWorker).
Workers(kind) == singletonWorker

\* Per kind: the keys in the queue, the workers inside Sync, the objects
\* whose events arrived since the last pass started (burst), and whether a
\* trigger is still waiting for a pass to start (owed).
Controller(keys) == [queue |-> keys, running |-> {}, burst |-> {}, owed |-> FALSE]

\* Start: every controller with its first pass queued.
ManagerStarted == [k \in Kinds |-> Controller({SingletonQueue(Provided("a"))})]

\* An informer event of a controller.
Trigger(kind, obj) ==
    /\ \E keys \in {FilterKeys(kind, obj)} :
          mgr' = [mgr EXCEPT ![kind] =
                     [@ EXCEPT !.queue = @ \cup keys,
                               !.burst = IF keys = {} THEN @ ELSE @ \cup {obj},
                               !.owed = @ \/ keys # {}]]
    /\ UNCHANGED <<oidcVars, adVars, gcVars, call, now, cancelled, events>>

\* A free worker of the controller takes a key and enters Sync.
StartPass(kind, w) ==
    /\ w \in 1..Workers(kind)
    /\ w \notin mgr[kind].running
    /\ \E key \in mgr[kind].queue :
          mgr' = [mgr EXCEPT ![kind] =
                     [@ EXCEPT !.queue = @ \ {key}, !.running = @ \cup {w},
                               !.burst = {}, !.owed = FALSE]]
    /\ UNCHANGED <<oidcVars, adVars, gcVars, call, now, cancelled, events>>

\* Sync returns; an error or ErrSyntheticRequeue puts the key back.
EndPass(kind, w, result) ==
    /\ w \in mgr[kind].running
    /\ mgr' = [mgr EXCEPT ![kind] =
                  [@ EXCEPT !.running = @ \ {w},
                            !.queue = IF result = "nil" THEN @
                                      ELSE @ \cup {SingletonQueue(Provided("a"))}]]
    /\ UNCHANGED <<oidcVars, adVars, gcVars, call, now, cancelled, events>>

InitManager ==
    /\ FreshWatchers /\ NoCleaner /\ call = NoCall
    /\ upstreams = <<>>
    /\ secrets = [n \in SecretNames |-> NoSecret]
    /\ discovery = [i \in Issuers |-> NoProvider]
    /\ mgr = ManagerStarted

NextManager ==
    \/ \E kind \in Kinds, obj \in WatchedObjects : Trigger(kind, obj)
    \/ \E kind \in Kinds, w \in 1..2 : StartPass(kind, w)
    \/ \E kind \in Kinds, w \in 1..2, result \in {"nil", "requeue", "error"} :
          EndPass(kind, w, result)

\* A worker with a key in its queue takes it, and Sync returns.
ManagerFairness ==
    /\ \A kind \in Kinds : WF_mgr(StartPass(kind, 1))
    /\ \A kind \in Kinds : WF_mgr(\E result \in {"nil", "requeue", "error"} :
                                      EndPass(kind, 1, result))

SpecManager == InitManager /\ [][NextManager]_vars /\ ManagerFairness

\* C22: no controller ever has two workers inside Sync; a controller with
\* a key in its queue and no pass running can start its pass whatever the
\* other controller is doing.
C22_SerialisedPerKind ==
    \A kind \in Kinds :
        /\ Cardinality(mgr[kind].running) <= 1
        /\ (mgr[kind].queue # {} /\ mgr[kind].running = {}) => ENABLED StartPass(kind, 1)

C22_Witness ==
    /\ mgr["oidc"].running = {1}
    /\ mgr["activedirectory"].running = {1}
    /\ mgr["oidc"].queue # {}

\* C23: the queue of a controller never holds more than one key, a trigger
\* that is owed a pass has its key in the queue, and every owed trigger is
\* followed by the start of a pass.
C23_TriggerCoalescing ==
    /\ [](\A kind \in Kinds :
             /\ Cardinality(mgr[kind].queue) <= 1
             /\ mgr[kind].owed => mgr[kind].queue # {})
    /\ \A kind \in Kinds : mgr[kind].owed ~> ~mgr[kind].owed

C23_Witness ==
    /\ mgr["oidc"].burst = WatchedObjects
    /\ mgr["oidc"].running = {1}
    /\ Cardinality(mgr["oidc"].queue) = 1
    /\ mgr["activedirectory"].burst =
          {Provided("a"), Provided("b"), Secreted("t", ldapBindAccountSecretType)}
    /\ Cardinality(mgr["activedirectory"].queue) = 1

\* --------------------------------------- the Active Directory watcher alone

\* The Active Directory watcher just constructed, its secret-version cache
\* empty (New, lines 152-153), over two resources with their bind secrets
\* and a dialer that works or fails; the OIDC watcher is not running.
InitAD ==
    /\ upstreams = <<>>
    /\ secrets = [n \in SecretNames |-> NoSecret]
    /\ discovery = [i \in Issuers |-> NoProvider]
    /\ now = 1
    /\ cancelled = FALSE
    /\ validatorCache = [i \in Issuers |-> NoEntry]
    /\ idpCache = <<>>
    /\ queue = FALSE
    /\ pc = "idle"
    /\ actualUpstreams = <<>>
    /\ idx = 0
    /\ validatedUpstreams = <<>>
    /\ requeue = FALSE
    /\ lastResult = "none"
    /\ pass = NoPass
    /\ prev = NoSummary
    /\ lastSet = <<>>
    /\ seen = [torn |-> FALSE, midPass |-> FALSE]
    /\ events = 0
    /\ adUpstreams = <<AdUpstream("x", 1, BindSecretNameOf("x")),
                       AdUpstream("y", 1, BindSecretNameOf("y"))>>
    /\ adSecrets \in {[n \in BindSecretNames |-> IF n = "bx" THEN bx ELSE GoodBindSecret] :
                          bx \in BindSecretStates}
    /\ ldapDialer \in DialerStates
    /\ validatedSecretVersionsCache = [n \in AdNames |-> ""]
    /\ adCache = <<>>
    /\ adQueue = TRUE
    /\ adSync = AdIdle
    /\ adPass = AdTraced
    /\ adSeen = [torn |-> FALSE, midPass |-> FALSE]
    /\ NoCleaner
    /\ call = NoCall
    /\ mgr = NoManager

NextAD ==
    \/ AdSyncList
    \/ \E accepted \in BOOLEAN : AdSyncValidate(accepted)
    \/ AdSyncPublish
    \/ \E n \in BindSecretNames, v \in BindSecretStates : SetBindSecret(n, v)
    \/ \E v \in DialerStates : SetDialer(v)

SpecAD == InitAD /\ [][NextAD]_vars

\* The version of the bind secret of the i-th resource of the pass when its
\* secret condition is True, "" when the pass found no usable secret.
TestedVersion(p, i) ==
    IF p.conditions[i][1].status = ConditionTrue
    THEN adSecrets[p.listed[i].secretName].resourceVersion
    ELSE ""

ConnectionOf(p, i) == p.conditions[i][2]

\* The resources of the pass validated with a usable secret.
Tested(p) ==
    {i \in 1..Len(p.conditions) : Len(p.conditions[i]) = 2}

\* C24: for a resource validated with a usable bind secret whose version is
\* the one recorded for the resource, the pass did not call the dialer and
\* reported the connection condition True / Success; with any other
\* recorded version, or none, it called the dialer.
C24_SecretVersionSkip ==
    [][\A i \in Tested(adPass') \ Tested(adPass) :
          LET version == TestedVersion(adPass', i)
          IN /\ adPass'.recorded[i] = version =>
                   /\ ~adPass'.dialed[i]
                   /\ ConnectionOf(adPass', i).status = ConditionTrue
                   /\ ConnectionOf(adPass', i).reason = reasonSuccess
             /\ adPass'.recorded[i] # version => adPass'.dialed[i]]_vars

C24_Witness ==
    /\ adPass.result = "nil"
    /\ adPass.dialed = <<FALSE, TRUE>>
    /\ adPass.recorded = <<"v1", "v1">>
    /\ adSecrets["by"].resourceVersion = "v2"
    /\ ldapDialer = "ok"

\* C25: a live test that failed left the recorded version of the resource
\* as it was, a live test that succeeded recorded the version it tested, a
\* validation without a live test recorded nothing; so a version is in the
\* cache only after a successful test of it, and a pass that follows a
\* failed test with the secret unchanged dials again.
C25_VersionRecordedOnSuccess ==
    [][/\ \A i \in Tested(adPass') \ Tested(adPass) :
             /\ (adPass'.dialed[i] /\ ConnectionOf(adPass', i).status # ConditionTrue) =>
                    /\ adPass'.recordedAfter[i] = adPass'.recorded[i]
                    /\ adPass'.recorded[i] # TestedVersion(adPass', i)
             /\ (adPass'.dialed[i] /\ ConnectionOf(adPass', i).status = ConditionTrue) =>
                    adPass'.recordedAfter[i] = TestedVersion(adPass', i)
             /\ ~adPass'.dialed[i] => adPass'.recordedAfter[i] = adPass'.recorded[i]
       /\ \A n \in AdNames :
             validatedSecretVersionsCache'[n] # "" =>
                 <<n, validatedSecretVersionsCache'[n]>> \in adPass'.succeeded]_vars

C25_Witness ==
    /\ adPass.result = "nil"
    /\ adPass.failed = {<<"x", "v1">>, <<"y", "v1">>}
    /\ adPass.succeeded = {<<"x", "v1">>, <<"y", "v1">>}
    /\ adPass.dialed = <<TRUE, TRUE>>
    /\ adPass.recorded = <<"", "">>
    /\ adPass.recordedAfter = <<"v1", "v1">>

\* ------------------------------------------------------- requested scopes

\* The scope names of the additional scopes of a resource: the mandatory
\* one, a proper prefix of it, a usual one and the empty string.
ScopeNames == {"openid", "open", "profile", ""}

MaxScopes == 3

\* The bytes of a scope name (sort.Strings compares strings bytewise).
Bytes(s) ==
    CASE s = "openid" -> <<111, 112, 101, 110, 105, 100>>
      [] s = "open" -> <<111, 112, 101, 110>>
      [] s = "profile" -> <<112, 114, 111, 102, 105, 108, 101>>
      [] s = "" -> <<>>

RECURSIVE BytesLess(_, _)
BytesLess(x, y) ==
    IF y = <<>> THEN FALSE
    ELSE IF x = <<>> THEN TRUE
    ELSE IF Head(x) # Head(y) THEN Head(x) < Head(y)
    ELSE BytesLess(Tail(x), Tail(y))

\* Go's s < t on strings.
StringLess(s, t) == BytesLess(Bytes(s), Bytes(t))

\* The AdditionalScopes lists of the bounded model.
ScopeLists == UNION {[1..n -> ScopeNames] : n \in 0..MaxScopes}

\* computeScopes, lines 322-326: the set with "openid" and every input.
ScopeSet(additionalScopes) ==
    {"openid"} \cup {additionalScopes[i] : i \in 1..Len(additionalScopes)}

\* computeScopes, lines 329-332: the keys of the map, in any order (the
\* iteration order of a Go map is unspecified).
RECURSIVE KeyOrders(_)
KeyOrders(set) ==
    IF set = {} THEN {<<>>}
    ELSE UNION {{<<s>> \o rest : rest \in KeyOrders(set \ {s})} : s \in set}

RECURSIVE InsertString(_, _)
InsertString(sorted, s) ==
    IF sorted = <<>> THEN <<s>>
    ELSE IF StringLess(s, sorted[Len(sorted)])
         THEN Append(InsertString(SubSeq(sorted, 1, Len(sorted) - 1), s), sorted[Len(sorted)])
         ELSE Append(sorted, s)

RECURSIVE SortStringsFrom(_, _)
SortStringsFrom(done, rest) ==
    IF rest = <<>> THEN done
    ELSE SortStringsFrom(InsertString(done, Head(rest)), Tail(rest))

\* The keys returned in the order the map yielded them.
SortStrings_AsIterated(keys) == keys

\* sort.Strings, line 333.
SortStrings(keys) == SortStringsFrom(<<>>, keys)

\* computeScopes with the order in which the map yielded its keys.
computeScopes(additionalScopes, keys) == SortStrings(keys)

InitScopes ==
    /\ upstreams = <<Upstream("a", 1, IssuerOf("a"), SecretNameOf("a")),
                     Upstream("b", 1, IssuerOf("b"), SecretNameOf("b"))>>
    /\ secrets = [n \in SecretNames |-> NoSecret]
    /\ discovery = [i \in Issuers |-> Provider(HTTPSAuthURL)]
    /\ FreshWatchers /\ NoCleaner /\ mgr = NoManager
    /\ call \in {[fn |-> "spec", additionalScopes |-> l] : l \in ScopeLists}

Elements(list) == {list[i] : i \in 1..Len(list)}

\* validateUpstream, line 124: Scopes: computeScopes(AdditionalScopes), on
\* the list of the resource, then on any list with the same elements and
\* on the list the last call returned.
CallComputeScopes(additionalScopes) ==
    /\ \/ call.fn = "spec" /\ additionalScopes = call.additionalScopes
       \/ /\ call.fn = "computeScopes"
          /\ \/ Elements(additionalScopes) = Elements(call.additionalScopes)
             \/ additionalScopes = call.scopes
    /\ \E keys \in KeyOrders(ScopeSet(additionalScopes)) :
          call' = [fn |-> "computeScopes",
                   additionalScopes |-> additionalScopes,
                   keys |-> keys,
                   scopes |-> computeScopes(additionalScopes, keys)]
    /\ UNCHANGED <<oidcVars, adVars, gcVars, mgr, now, cancelled, events>>

NextScopes ==
    \E additionalScopes \in ScopeLists \cup
                            (IF call.fn = "computeScopes" THEN {call.scopes} ELSE {}) :
        CallComputeScopes(additionalScopes)

SpecScopes == InitScopes /\ [][NextScopes]_vars

\* C26: the scopes computeScopes returns contain "openid" and every
\* additional scope and nothing else, without duplicates and in ascending
\* order; two calls whose inputs have the same elements, in any order and
\* multiplicity, return the same list, and a call on the list the previous
\* call returned returns that list.
C26_RequestedScopes ==
    [][call'.fn = "computeScopes" =>
          /\ Elements(call'.scopes) = {"openid"} \cup Elements(call'.additionalScopes)
          /\ Len(call'.scopes) = Cardinality(Elements(call'.scopes))
          /\ \A i \in 1..Len(call'.scopes) - 1 :
                 StringLess(call'.scopes[i], call'.scopes[i + 1])
          /\ call.fn = "computeScopes" =>
                /\ Elements(call.additionalScopes) = Elements(call'.additionalScopes)
                      => call'.scopes = call.scopes
                /\ call'.additionalScopes = call.scopes
                      => call'.scopes = call.scopes]_vars

C26_Witness ==
    /\ call.fn = "computeScopes"
    /\ call.additionalScopes = <<"profile", "", "profile">>
    /\ call.keys = <<"profile", "openid", "">>
    /\ call.scopes = <<"", "openid", "profile">>

\* ------------------------------------------------ configuration loading

\* A pointer field of Config: nil when the file omits the key.
Nil == [isNil |-> TRUE]

Ptr(v) == [isNil |-> FALSE, value |-> v]

\* Labels: a nil map when the file omits the key.
NilMap == [isNil |-> TRUE, entries |-> {}]

Map(entries) == [isNil |-> FALSE, entries |-> entries]

\* 60 * 60 * 24 * 365
aboutAYear == 31536000

\* 60 * 60 * 24 * 30 * 9
about9Months == 23328000

defaultConciergeListenPort == 8443

defaultSupervisorListenPort == 8443

PinnipedDefaultSuffix == "pinniped.dev"

\* The names validateNames requires, in the order it tests them.
SupervisorNames == <<"defaultTLSCertificateSecret">>

ConciergeNames ==
    <<"servingCertificateSecret", "credentialIssuer", "apiService",
      "impersonationLoadBalancerService", "impersonationClusterIPService",
      "impersonationTLSCertificateSecret", "impersonationCACertificateSecret",
      "impersonationSignerSecret", "agentServiceAccount">>

\* The files of the bounded model, as yaml.Unmarshal decodes them.
SuffixInputs == {Nil, Ptr("some.suffix.com"), Ptr(".starts.with.dot")}

PortInputs == {Nil, Ptr(1234), Ptr(0)}

LabelInputs == {NilMap, Map({}), Map({<<"myLabelKey1", "myLabelValue1">>})}

LogLevelInputs == {"", "debug", "nonsense"}

SecondsInputs == {Nil, Ptr(-10), Ptr(0), Ptr(2400), Ptr(3600), Ptr(40000000)}

NameInputs(required) ==
    {{required[i] : i \in 1..Len(required)},
     {required[i] : i \in 1..Len(required) - 1},
     {}}

SupervisorFiles ==
    [readable : {TRUE}, yaml : {TRUE},
     apiGroupSuffix : SuffixInputs, labels : LabelInputs,
     names : NameInputs(SupervisorNames), listenPort : PortInputs,
     logLevel : LogLevelInputs]
    \cup [readable : {FALSE}, yaml : {TRUE}] \cup [readable : {TRUE}, yaml : {FALSE}]

ConciergeFiles ==
    [readable : {TRUE}, yaml : {TRUE},
     apiGroupSuffix : SuffixInputs, labels : LabelInputs,
     names : NameInputs(ConciergeNames), listenPort : PortInputs,
     logLevel : LogLevelInputs,
     durationSeconds : SecondsInputs, renewBeforeSeconds : SecondsInputs,
     namePrefix : {Nil, Ptr("kube-cert-agent-name-prefix-")},
     image : {Nil}]
    \cup [readable : {FALSE}, yaml : {TRUE}] \cup [readable : {TRUE}, yaml : {FALSE}]

NoError == [stage |-> "", message |-> <<>>]

Error(stage, message) == [stage |-> stage, message |-> message]

Loaded(config) == [err |-> NoError, config |-> config]

Failed(stage, message) == [err |-> Error(stage, message), config |-> Nil]

maybeSetAPIDefaults(config) ==
    [config EXCEPT
        !.durationSeconds = IF @.isNil THEN Ptr(aboutAYear) ELSE @,
        !.renewBeforeSeconds = IF @.isNil THEN Ptr(about9Months) ELSE @]

maybeSetAPIGroupSuffixDefault(apiGroupSuffix) ==
    IF apiGroupSuffix.isNil THEN Ptr(PinnipedDefaultSuffix) ELSE apiGroupSuffix

maybeSetKubeCertAgentDefaults(config) ==
    [config EXCEPT
        !.namePrefix = IF @.isNil THEN Ptr("pinniped-kube-cert-agent-") ELSE @,
        !.image = IF @.isNil THEN Ptr("debian:latest") ELSE @]

\* A default that replaces the port of the file.
maybeSetListenPort_Always(listenPort, default) == Ptr(default)

maybeSetListenPort(listenPort, default) ==
    IF listenPort.isNil THEN Ptr(default) ELSE listenPort

\* The two tests in the other order.
validateAPI_PositiveFirst(config) ==
    IF config.renewBeforeSeconds.value <= 0
    THEN <<"renewBefore must be positive">>
    ELSE IF config.durationSeconds.value < config.renewBeforeSeconds.value
    THEN <<"durationSeconds cannot be smaller than renewBeforeSeconds">>
    ELSE <<>>

\* validateAPI: the error message, <<>> for nil.
validateAPI(config) ==
    IF config.durationSeconds.value < config.renewBeforeSeconds.value
    THEN <<"durationSeconds cannot be smaller than renewBeforeSeconds">>
    ELSE IF config.renewBeforeSeconds.value <= 0
    THEN <<"renewBefore must be positive">>
    ELSE <<>>

\* groupsuffix.Validate: a lowercase RFC 1123 subdomain.
validateAPIGroupSuffix(apiGroupSuffix) ==
    IF apiGroupSuffix \in {"pinniped.dev", "some.suffix.com"} THEN <<>>
    ELSE <<"a lowercase RFC 1123 subdomain must consist of lower case alphanumeric characters">>

\* validateNames: the required names the file leaves empty, in order.
validateNames(required, names) ==
    LET missingNames == SelectSeq(required, LAMBDA n : n \notin names)
    IN IF Len(missingNames) > 0 THEN <<"missing required names">> \o missingNames ELSE <<>>

\* validation.IsValidPortNum.
validatePort(listenPort) ==
    IF 1 <= listenPort /\ listenPort <= 65535 THEN <<>>
    ELSE <<"must be between 1 and 65535, inclusive">>

\* plog.ValidateAndSetLogLevelGlobally.
ValidateAndSetLogLevelGlobally(logLevel) ==
    IF logLevel \in {"", "info", "debug", "trace", "all"} THEN <<>>
    ELSE <<"invalid log level">>

\* The supervisor's FromPath.
SupervisorAfterDefaults(file) ==
    [file EXCEPT
        !.labels = IF @.isNil THEN Map({}) ELSE @,
        !.apiGroupSuffix = maybeSetAPIGroupSuffixDefault(@),
        !.listenPort = maybeSetListenPort(@, defaultSupervisorListenPort)]

\* A supervisor loader that validates in the concierge's order: the port
\* before the log level.
SupervisorFromPath_PortBeforeLogLevel(file) ==
    IF ~file.readable THEN Failed("read file", <<>>)
    ELSE IF ~file.yaml THEN Failed("decode yaml", <<>>)
    ELSE LET config == SupervisorAfterDefaults(file)
         IN IF validateAPIGroupSuffix(config.apiGroupSuffix.value) # <<>>
            THEN Failed("validate apiGroupSuffix", validateAPIGroupSuffix(config.apiGroupSuffix.value))
            ELSE IF validateNames(SupervisorNames, config.names) # <<>>
            THEN Failed("validate names", validateNames(SupervisorNames, config.names))
            ELSE IF validatePort(config.listenPort.value) # <<>>
            THEN Failed("validate listenPort", validatePort(config.listenPort.value))
            ELSE IF ValidateAndSetLogLevelGlobally(config.logLevel) # <<>>
            THEN Failed("validate log level", ValidateAndSetLogLevelGlobally(config.logLevel))
            ELSE Loaded(config)

SupervisorFromPath(file) ==
    IF ~file.readable THEN Failed("read file", <<>>)
    ELSE IF ~file.yaml THEN Failed("decode yaml", <<>>)
    ELSE LET config == SupervisorAfterDefaults(file)
         IN IF validateAPIGroupSuffix(config.apiGroupSuffix.value) # <<>>
            THEN Failed("validate apiGroupSuffix", validateAPIGroupSuffix(config.apiGroupSuffix.value))
            ELSE IF validateNames(SupervisorNames, config.names) # <<>>
            THEN Failed("validate names", validateNames(SupervisorNames, config.names))
            ELSE IF ValidateAndSetLogLevelGlobally(config.logLevel) # <<>>
            THEN Failed("validate log level", ValidateAndSetLogLevelGlobally(config.logLevel))
            ELSE IF validatePort(config.listenPort.value) # <<>>
            THEN Failed("validate listenPort", validatePort(config.listenPort.value))
            ELSE Loaded(config)

\* The concierge's FromPath.
ConciergeAfterDefaults(file) ==
    [maybeSetKubeCertAgentDefaults(maybeSetAPIDefaults(file)) EXCEPT
        !.apiGroupSuffix = maybeSetAPIGroupSuffixDefault(@),
        !.listenPort = maybeSetListenPort(@, defaultConciergeListenPort)]

ConciergeFromPath(file) ==
    IF ~file.readable THEN Failed("read file", <<>>)
    ELSE IF ~file.yaml THEN Failed("decode yaml", <<>>)
    ELSE LET config == ConciergeAfterDefaults(file)
         IN IF validateAPI(config) # <<>>
            THEN Failed("validate api", validateAPI(config))
            ELSE IF validateAPIGroupSuffix(config.apiGroupSuffix.value) # <<>>
            THEN Failed("validate apiGroupSuffix", validateAPIGroupSuffix(config.apiGroupSuffix.value))
            ELSE IF validateNames(ConciergeNames, config.names) # <<>>
            THEN Failed("validate names", validateNames(ConciergeNames, config.names))
            ELSE IF validatePort(config.listenPort.value) # <<>>
            THEN Failed("validate listenPort", validatePort(config.listenPort.value))
            ELSE IF ValidateAndSetLogLevelGlobally(config.logLevel) # <<>>
            THEN Failed("validate log level", ValidateAndSetLogLevelGlobally(config.logLevel))
            ELSE Loaded([config EXCEPT !.labels = IF @.isNil THEN Map({}) ELSE @])

\* The path handed to FromPath names any of the files.
PathOf(package, file) == [fn |-> "path", package |-> package, file |-> file]

InitConfig ==
    /\ upstreams = <<Upstream("a", 1, IssuerOf("a"), SecretNameOf("a")),
                     Upstream("b", 1, IssuerOf("b"), SecretNameOf("b"))>>
    /\ secrets = [n \in SecretNames |-> NoSecret]
    /\ discovery = [i \in Issuers |-> Provider(HTTPSAuthURL)]
    /\ FreshWatchers /\ NoCleaner /\ mgr = NoManager
    /\ call \in {PathOf("supervisor", file) : file \in SupervisorFiles}
                \cup {PathOf("concierge", file) : file \in ConciergeFiles}

LoadSupervisorConfig(file) ==
    /\ call = PathOf("supervisor", file)
    /\ call' = [fn |-> "FromPath", package |-> "supervisor", file |-> file,
                out |-> SupervisorFromPath(file)]
    /\ UNCHANGED <<oidcVars, adVars, gcVars, mgr, now, cancelled, events>>

LoadConciergeConfig(file) ==
    /\ call = PathOf("concierge", file)
    /\ call' = [fn |-> "FromPath", package |-> "concierge", file |-> file,
                out |-> ConciergeFromPath(file)]
    /\ UNCHANGED <<oidcVars, adVars, gcVars, mgr, now, cancelled, events>>

NextConfig ==
    \/ LoadSupervisorConfig(call.file)
    \/ LoadConciergeConfig(call.file)

SpecConfig == InitConfig /\ [][NextConfig]_vars

\* A call of FromPath on a file that was read and decoded.
Decoded == call.fn = "FromPath" /\ call.file.readable /\ call.file.yaml

OmitsOptional ==
    /\ call.file.apiGroupSuffix = Nil
    /\ call.file.listenPort = Nil
    /\ call.file.labels = NilMap

AllNames ==
    call.file.names = IF call.package = "supervisor"
                      THEN {"defaultTLSCertificateSecret"}
                      ELSE {ConciergeNames[i] : i \in 1..9}

\* The certificate lifetimes FromPath validates: those of the file, or the
\* defaults where the file has none.
Duration ==
    IF call.file.durationSeconds = Nil THEN 31536000 ELSE call.file.durationSeconds.value

RenewBefore ==
    IF call.file.renewBeforeSeconds = Nil THEN 23328000 ELSE call.file.renewBeforeSeconds.value

RestValid ==
    /\ call.file.logLevel \in {"", "debug"}
    /\ call.package = "concierge" => 0 < RenewBefore /\ RenewBefore <= Duration

DefaultsApplied ==
    /\ call.out.err = NoError
    /\ call.out.config.apiGroupSuffix = Ptr("pinniped.dev")
    /\ call.out.config.listenPort = Ptr(8443)
    /\ call.out.config.labels = Map({})
    /\ call.package = "concierge" =>
          /\ call.file.durationSeconds = Nil
                => call.out.config.durationSeconds = Ptr(31536000)
          /\ call.file.renewBeforeSeconds = Nil
                => call.out.config.renewBeforeSeconds = Ptr(23328000)

PresentValuesKept ==
    call.out.err = NoError =>
        /\ call.file.apiGroupSuffix # Nil
              => call.out.config.apiGroupSuffix = call.file.apiGroupSuffix
        /\ call.file.listenPort # Nil
              => call.out.config.listenPort = call.file.listenPort
        /\ call.file.labels # NilMap => call.out.config.labels = call.file.labels
        /\ call.out.config.names = call.file.names
        /\ call.out.config.logLevel = call.file.logLevel
        /\ call.package = "concierge" =>
              /\ call.file.durationSeconds # Nil
                    => call.out.config.durationSeconds = call.file.durationSeconds
              /\ call.file.renewBeforeSeconds # Nil
                    => call.out.config.renewBeforeSeconds = call.file.renewBeforeSeconds
              /\ call.file.namePrefix # Nil
                    => call.out.config.namePrefix = call.file.namePrefix

\* C27 as stated: every file that omits apiGroupSuffix, listenPort and
\* labels and supplies all required names loads, with the defaults for
\* what it omits; values of the file are never overwritten.
C27_AsStated ==
    Decoded =>
        /\ (OmitsOptional /\ AllNames) => DefaultsApplied
        /\ PresentValuesKept

\* C27: a file that omits apiGroupSuffix, listenPort and labels, supplies
\* all required names and has a valid log level and (concierge) valid
\* certificate lifetimes after defaulting loads with apiGroupSuffix
\* pinniped.dev, listenPort 8443, an empty non-nil labels map and, for the
\* concierge, a year and nine months for the lifetimes the file omits; no
\* value of a file is overwritten by a default.
C27_ConfigDefaults ==
    Decoded =>
        /\ (OmitsOptional /\ AllNames /\ RestValid) => DefaultsApplied
        /\ PresentValuesKept

C27_Witness ==
    /\ Decoded /\ OmitsOptional /\ AllNames
    /\ call.package = "concierge"
    /\ call.file.durationSeconds = Nil /\ call.file.renewBeforeSeconds = Nil
    /\ call.file.logLevel = ""
    /\ call.out.err = NoError
    /\ call.out.config.labels = Map({})
    /\ call.out.config.durationSeconds = Ptr(31536000)

\* C28: the concierge's FromPath fails with "durationSeconds cannot be
\* smaller than renewBeforeSeconds" exactly when, after defaults, the
\* duration is less than the renew-before, with "renewBefore must be
\* positive" exactly when it is not and the renew-before is at most 0, and
\* otherwise passes the lifetimes; it loads only configurations with
\* 0 < renewBeforeSeconds <= durationSeconds, and all of those whose other
\* fields are valid.
C28_LifetimeValidation ==
    (Decoded /\ call.package = "concierge") =>
        /\ Duration < RenewBefore
              <=> call.out.err = Error("validate api",
                       <<"durationSeconds cannot be smaller than renewBeforeSeconds">>)
        /\ (Duration >= RenewBefore /\ RenewBefore <= 0)
              <=> call.out.err = Error("validate api", <<"renewBefore must be positive">>)
        /\ (0 < RenewBefore /\ RenewBefore <= Duration)
              <=> call.out.err.stage # "validate api"
        /\ call.out.err = NoError => 0 < RenewBefore /\ RenewBefore <= Duration
        /\ (/\ 0 < RenewBefore /\ RenewBefore <= Duration
            /\ AllNames
            /\ call.file.logLevel \in {"", "debug"}
            /\ call.file.apiGroupSuffix \in {Nil, Ptr("some.suffix.com")}
            /\ call.file.listenPort \in {Nil, Ptr(1234)})
              => call.out.err = NoError

C28_Witness ==
    /\ Decoded /\ call.package = "concierge"
    /\ call.file.durationSeconds = Ptr(-10)
    /\ call.file.renewBeforeSeconds = Ptr(0)
    /\ call.file.names = {}
    /\ call.out.err.message = <<"durationSeconds cannot be smaller than renewBeforeSeconds">>

\* ------------------------------------------------- all validators run

HasType(conditions, type) ==
    \E k \in 1..Len(conditions) : conditions[k].type = type

\* C29: for every resource a pass has validated, the secret validator and
\* the issuer validator both produced their condition, whatever the other
\* found; the status handed to the write carries a ClientCredentialsValid
\* and an OIDCDiscoverySucceeded condition; and the issuer was asked unless
\* the discovery cache answered, also for a missing or malformed secret.
C29_AllValidatorsRun ==
    \A i \in 1..Len(pass.conditions) :
        /\ Len(pass.conditions[i]) = 2
        /\ pass.conditions[i][1].type = typeClientCredsValid
        /\ pass.conditions[i][2].type = typeOIDCDiscoverySucceeded
        /\ HasType(pass.updated[i].status.conditions, typeClientCredsValid)
        /\ HasType(pass.updated[i].status.conditions, typeOIDCDiscoverySucceeded)
        /\ pass.conditions[i][2].reason = reasonUnreachable => pass.called[i]
        /\ ~pass.called[i] =>
              /\ validatorCache[pass.listed[i].issuer].cached
              /\ pass.conditions[i][2].reason \in {reasonSuccess, reasonInvalidResponse}

C29_Witness ==
    \E i \in 1..Len(pass.conditions) :
        /\ pass.conditions[i][1].reason = reasonNotFound
        /\ pass.called[i]
        /\ pass.conditions[i][2].reason = reasonSuccess
        /\ pass.writes[i] = 1
        /\ HasType(pass.updated[i].status.conditions, typeOIDCDiscoverySucceeded)

\* ------------------------------------------- status writes of both drivers

\* One resource of each kind: the OIDC resource with an empty status or one
\* stored condition, its secret present or not; the Active Directory
\* resource with its bind secret present or not and the dialer working or
\* not; both keys queued.
InitWrites ==
    /\ \E conditions \in {<<>>} \cup {<<c>> : c \in StoredConditions} :
          upstreams = <<[Upstream("a", 1, IssuerOf("a"), SecretNameOf("a"))
                            EXCEPT !.status = StoredStatus(conditions)]>>
    /\ secrets \in {[n \in SecretNames |-> IF n = "s1" THEN v ELSE GoodSecret] :
                        v \in {NoSecret, GoodSecret}}
    /\ discovery = [i \in Issuers |-> Provider(HTTPSAuthURL)]
    /\ now = 1
    /\ cancelled = FALSE
    /\ validatorCache = [i \in Issuers |-> NoEntry]
    /\ idpCache = <<>>
    /\ queue = TRUE
    /\ pc = "idle"
    /\ actualUpstreams = <<>>
    /\ idx = 0
    /\ validatedUpstreams = <<>>
    /\ requeue = FALSE
    /\ lastResult = "none"
    /\ pass = NoPass
    /\ prev = NoSummary
    /\ lastSet = <<>>
    /\ seen = [torn |-> FALSE, midPass |-> FALSE]
    /\ events = 0
    /\ adUpstreams = <<AdUpstream("x", 1, BindSecretNameOf("x"))>>
    /\ adSecrets \in {[n \in BindSecretNames |-> IF n = "bx" THEN bx ELSE GoodBindSecret] :
                          bx \in {NoSecret, GoodBindSecret}}
    /\ ldapDialer \in {"ok", "dial failed"}
    /\ validatedSecretVersionsCache = [n \in AdNames |-> ""]
    /\ adCache = <<>>
    /\ adQueue = TRUE
    /\ adSync = AdIdle
    /\ adPass = AdTraced
    /\ adSeen = [torn |-> FALSE, midPass |-> FALSE]
    /\ NoCleaner
    /\ call = NoCall
    /\ mgr = NoManager

NextWrites ==
    \/ SyncList
    \/ \E accepted \in BOOLEAN : SyncValidate(accepted)
    \/ SyncPublish
    \/ AdSyncList
    \/ \E accepted \in BOOLEAN : AdSyncValidate(accepted)
    \/ AdSyncPublish
    \/ \E v \in {NoSecret, GoodSecret} : SetSecret("s1", v)
    \/ \E v \in {NoSecret, GoodBindSecret} : SetBindSecret("bx", v)
    \/ Tick(1)

SpecWrites == InitWrites /\ [][NextWrites]_vars

\* What mergeCondition returned for each condition of updateStatus's loop.
RECURSIVE MergeChanges(_, _, _, _)
MergeChanges(existing, conditions, generation, time) ==
    IF conditions = <<>> THEN <<>>
    ELSE LET cond == [Head(conditions) EXCEPT !.lastTransitionTime = time,
                                              !.observedGeneration = generation]
             m == mergeCondition(existing, cond)
         IN <<m.changed>> \o MergeChanges(m.conditions, Tail(conditions), generation, time)

NoMergeChange(upstream, conditions, time) ==
    LET changes == MergeChanges(upstream.status.conditions, conditions,
                                upstream.generation, time)
    IN \A k \in 1..Len(changes) : ~changes[k]

MergeInputs ==
    {[StoredCondition(t, st) EXCEPT !.message = m,
                                    !.lastTransitionTime = 1,
                                    !.observedGeneration = g] :
        t \in {typeClientCredsValid, typeOIDCDiscoverySucceeded},
        st \in {ConditionTrue, ConditionFalse},
        m \in {"stored", "new"}, g \in 1..MaxGeneration}

InitMerge ==
    /\ upstreams = <<Upstream("a", 1, IssuerOf("a"), SecretNameOf("a")),
                     Upstream("b", 1, IssuerOf("b"), SecretNameOf("b"))>>
    /\ secrets = [n \in SecretNames |-> NoSecret]
    /\ discovery = [i \in Issuers |-> Provider(HTTPSAuthURL)]
    /\ FreshWatchers /\ NoCleaner /\ mgr = NoManager
    /\ call \in {[fn |-> "spec", conditions |-> l] : l \in StoredLists}

\* updateStatus, line 261: mergeCondition(&updated.Status.Conditions, cond),
\* on the stored list and then on the list the call before left; the loop
\* runs once for each of the two conditions of validateUpstream.
CallMergeCondition(new) ==
    /\ call.fn = "spec" \/ (call.fn = "mergeCondition" /\ call.first)
    /\ \E m \in {mergeCondition(call.conditions, new)} :
          call' = [fn |-> "mergeCondition",
                   existing |-> call.conditions,
                   new |-> new,
                   conditions |-> m.conditions,
                   changed |-> m.changed,
                   first |-> call.fn = "spec"]
    /\ UNCHANGED <<oidcVars, adVars, gcVars, mgr, now, cancelled, events>>

NextMerge == \E new \in MergeInputs : CallMergeCondition(new)

SpecMerge == InitMerge /\ [][NextMerge]_vars

\* C31: mergeCondition returns true and changes the list exactly when the
\* list holds no condition of the new condition's type (the new one is
\* appended) or the existing one differs from the new one after the
\* transition time was carried forward (it is replaced in place); when the
\* two are equal it returns false and the list is as before; conditions of
\* other types are never modified.
C31_MergeResultFlag ==
    call.fn = "mergeCondition" =>
        LET e == call.existing
            n == call.new
            r == call.conditions
            S == {i \in 1..Len(e) : e[i].type = n.type}
        IN /\ call.changed <=> r # e
           /\ \A j \in 1..Len(e) : e[j].type # n.type => r[j] = e[j]
           /\ IF S = {}
              THEN call.changed /\ r = e \o <<n>>
              ELSE LET i == CHOOSE k \in S : \A j \in S : j <= k
                       carried == IF e[i].status = n.status
                                  THEN e[i].lastTransitionTime
                                  ELSE n.lastTransitionTime
                       merged == [type |-> n.type, status |-> n.status,
                                  reason |-> n.reason, message |-> n.message,
                                  lastTransitionTime |-> carried,
                                  observedGeneration |-> n.observedGeneration]
                   IN /\ Len(r) = Len(e)
                      /\ \A j \in 1..Len(e) : j # i => r[j] = e[j]
                      /\ r[i] = merged
                      /\ call.changed <=> e[i] # merged

\* A merge of a condition whose status is the stored one and whose message
\* is new: replaced in place with the stored transition time, the foreign
\* condition before it untouched.
C31_Witness ==
    /\ call.fn = "mergeCondition"
    /\ call.existing = <<StoredCondition(typeForeign, ConditionFalse),
                         StoredCondition(typeClientCredsValid, ConditionTrue)>>
    /\ call.new.type = typeClientCredsValid
    /\ call.new.status = ConditionTrue
    /\ call.new.message = "new"
    /\ call.changed
    /\ call.conditions[1] = call.existing[1]
    /\ call.conditions[2].lastTransitionTime = 0
    /\ call.conditions[2].message = "new"

\* ------------------------------------------------- observed generation

\* One resource of each kind, its status empty or as a pass at time 0 left
\* it in the store at generation 1, its spec possibly edited since; the
\* controllers just started, both keys queued.
InitGeneration ==
    /\ secrets \in {[n \in SecretNames |-> IF n = "s1" THEN v ELSE GoodSecret] :
                        v \in {NoSecret, GoodSecret}}
    /\ discovery = [i \in Issuers |-> Provider(HTTPSAuthURL)]
    /\ now = 1
    /\ cancelled = FALSE
    /\ validatorCache = [i \in Issuers |-> NoEntry]
    /\ \E a \in {Upstream("a", 1, IssuerOf("a"), SecretNameOf("a"))} :
          upstreams \in {<<[u EXCEPT !.generation = g]>> :
                            u \in {a, validateUpstream(FALSE, a, secrets, validatorCache,
                                                       discovery, 0).updated},
                            g \in 1..MaxGeneration}
    /\ idpCache = <<>>
    /\ queue = TRUE
    /\ pc = "idle"
    /\ actualUpstreams = <<>>
    /\ idx = 0
    /\ validatedUpstreams = <<>>
    /\ requeue = FALSE
    /\ lastResult = "none"
    /\ pass = NoPass
    /\ prev = NoSummary
    /\ lastSet = <<>>
    /\ seen = [torn |-> FALSE, midPass |-> FALSE]
    /\ events = 0
    /\ adSecrets \in {[n \in BindSecretNames |-> IF n = "bx" THEN bx ELSE GoodBindSecret] :
                          bx \in {NoSecret, GoodBindSecret}}
    /\ ldapDialer \in {"ok", "dial failed"}
    /\ validatedSecretVersionsCache = [n \in AdNames |-> ""]
    /\ \E x \in {AdUpstream("x", 1, BindSecretNameOf("x"))} :
          adUpstreams \in {<<[u EXCEPT !.generation = g]>> :
                              u \in {x, adValidateUpstream(FALSE, x, adSecrets,
                                                           validatedSecretVersionsCache,
                                                           ldapDialer, 0).updated},
                              g \in 1..MaxGeneration}
    /\ adCache = <<>>
    /\ adQueue = TRUE
    /\ adSync = AdIdle
    /\ adPass = AdTraced
    /\ adSeen = [torn |-> FALSE, midPass |-> FALSE]
    /\ NoCleaner
    /\ call = NoCall
    /\ mgr = NoManager

NextGeneration ==
    \/ SyncList
    \/ \E accepted \in BOOLEAN : SyncValidate(accepted)
    \/ SyncPublish
    \/ AdSyncList
    \/ \E accepted \in BOOLEAN : AdSyncValidate(accepted)
    \/ AdSyncPublish
    \/ EditUpstream("a")
    \/ AdEditUpstream("x")
    \/ Tick(1)

SpecGeneration == InitGeneration /\ [][NextGeneration]_vars

\* The stored condition of the type of c is c but for an observed
\* generation that is not the listed one.
StaleOnly(listed, c) ==
    /\ HasType(listed.status.conditions, c.type)
    /\ LET o == ConditionOf(listed.status.conditions, c.type)
       IN /\ o.status = c.status /\ o.reason = c.reason /\ o.message = c.message
          /\ o.observedGeneration # listed.generation

\* Every condition of the list has its type in the status, stamped with
\* the generation of the listed resource.
Stamped(listed, conditions, status) ==
    \A k \in 1..Len(conditions) :
        /\ HasType(status.conditions, conditions[k].type)
        /\ ConditionOf(status.conditions, conditions[k].type).observedGeneration
              = listed.generation

\* The conditions that are stale only are in the status with the stored
\* transition time, and differ from the stored ones.
Restamped(listed, conditions, status) ==
    \A k \in 1..Len(conditions) :
        StaleOnly(listed, conditions[k]) =>
            LET o == ConditionOf(listed.status.conditions, conditions[k].type)
                n == ConditionOf(status.conditions, conditions[k].type)
            IN /\ n # o
               /\ n.lastTransitionTime = o.lastTransitionTime
               /\ n = [o EXCEPT !.observedGeneration = listed.generation]

StoredAs(store, name) == (CHOOSE u \in {store[i] : i \in 1..Len(store)} : u.name = name)

\* C32: every condition a pass merges into the status of a resource carries
\* the generation of the resource as the pass listed it; a condition whose
\* status, reason and message are the stored ones and whose stored observed
\* generation is another one is replaced by a condition that differs in the
\* observed generation alone (the transition time is kept), and a status
\* write is issued. For the OIDC driver on the copy handed to the store, for
\* the Active Directory driver on the object the store holds after the write.
C32_ObservedGeneration ==
    [][/\ idx' = idx + 1 =>
            LET listed == actualUpstreams[idx']
                conditions == pass'.conditions[idx']
                updated == pass'.updated[idx']
            IN /\ Stamped(listed, conditions, updated.status)
               /\ Restamped(listed, conditions, updated.status)
               /\ (\E k \in 1..Len(conditions) : StaleOnly(listed, conditions[k]))
                     => pass'.writes[idx'] = 1
               /\ upstreams' # upstreams =>
                     StoredAs(upstreams', listed.name).status = updated.status
       /\ adSync'.idx = adSync.idx + 1 =>
            LET listed == adSync.actualUpstreams[adSync'.idx]
                conditions == adPass'.conditions[adSync'.idx]
            IN /\ (\E k \in 1..Len(conditions) : StaleOnly(listed, conditions[k]))
                     => adPass'.statusWrites = adPass.statusWrites + 1
               /\ adUpstreams' # adUpstreams =>
                     /\ Stamped(listed, conditions,
                                StoredAs(adUpstreams', listed.name).status)
                     /\ Restamped(listed, conditions,
                                  StoredAs(adUpstreams', listed.name).status)]_vars

\* Both resources edited after a status was stored at time 0: the pass
\* at time 1 finds the conditions unchanged, writes them with generation 2
\* and the stored transition time.
C32_Witness ==
    /\ pass.result = "nil" /\ pass.writes = <<1>>
    /\ pass.listed[1].generation = 2
    /\ Len(pass.listed[1].status.conditions) = 2
    /\ \A t \in BothTypes :
          /\ ConditionOf(pass.listed[1].status.conditions, t).observedGeneration = 1
          /\ ConditionOf(pass.listed[1].status.conditions, t).status = ConditionTrue
          /\ ConditionOf(upstreams[1].status.conditions, t)
                = [ConditionOf(pass.listed[1].status.conditions, t)
                      EXCEPT !.observedGeneration = 2]
          /\ ConditionOf(upstreams[1].status.conditions, t).lastTransitionTime = 0
    /\ pass.times[1] = 1
    /\ adPass.result = "nil" /\ adPass.statusWrites = 1
    /\ adPass.listed[1].generation = 2
    /\ Len(adPass.listed[1].status.conditions) = 2
    /\ \A k \in 1..2 :
          /\ adUpstreams[1].status.conditions[k]
                = [adPass.listed[1].status.conditions[k] EXCEPT !.observedGeneration = 2]
          /\ adUpstreams[1].status.conditions[k].lastTransitionTime = 0

\* ------------------------------------------------- the missing keys named

\* The keys of the two required ones that the Secret lacks or holds empty.
AbsentKeys(secret) ==
    SelectSeq(<<clientIDDataKey, clientSecretDataKey>>, LAMBDA k : secret[k] = "")

\* C33: when the Secret has the right type and lacks clientID or
\* clientSecret (or holds it empty), the message of the SecretMissingKeys
\* condition names exactly the keys that are absent or empty.
C33_MissingKeysNamed ==
    (call.fn = "validateSecret" /\ call.out.cond.reason = reasonMissingKeys) =>
        call.out.cond.message
            = MissingKeysMessage(call.upstream.secretName, AbsentKeys(call.secret))

\* ------------------------------------- the Active Directory configuration

AdHosts == {"ldap.example.com", "ad.example.com:636"}
AdBases == {"", "ou=users,dc=example,dc=com"}
AdFilters == {"", "(cn={})"}
UsernameAttributes == {"", "sAMAccountName", "mail"}
UIDAttributes == {"", "objectGUID", "uid"}
GroupNameAttributes == {"", "cn"}

\* The specs a resource can carry.
AdSpecs ==
    {AdSpec(h, UserSearch(ub, uf, un, ui), GroupSearch(gb, gf, gn)) :
        h \in AdHosts, ub \in AdBases, uf \in AdFilters,
        un \in UsernameAttributes, ui \in UIDAttributes,
        gb \in AdBases, gf \in AdFilters, gn \in GroupNameAttributes}

\* One resource with any spec, its bind secret present or not, the
\* controller just started with its key queued.
InitAdConfig ==
    /\ upstreams = <<>>
    /\ secrets = [n \in SecretNames |-> NoSecret]
    /\ discovery = [i \in Issuers |-> Provider(HTTPSAuthURL)]
    /\ now = 1
    /\ cancelled = FALSE
    /\ validatorCache = [i \in Issuers |-> NoEntry]
    /\ idpCache = <<>>
    /\ queue = FALSE
    /\ pc = "idle"
    /\ actualUpstreams = <<>>
    /\ idx = 0
    /\ validatedUpstreams = <<>>
    /\ requeue = FALSE
    /\ lastResult = "none"
    /\ pass = NoPass
    /\ prev = NoSummary
    /\ lastSet = <<>>
    /\ seen = [torn |-> FALSE, midPass |-> FALSE]
    /\ events = 0
    /\ adUpstreams \in {<<[AdUpstream("x", 1, BindSecretNameOf("x")) EXCEPT !.spec = spec]>> :
                            spec \in AdSpecs}
    /\ adSecrets \in {[n \in BindSecretNames |-> IF n = "bx" THEN bx ELSE GoodBindSecret] :
                          bx \in {NoSecret, GoodBindSecret}}
    /\ ldapDialer = "ok"
    /\ validatedSecretVersionsCache = [n \in AdNames |-> ""]
    /\ adCache = <<>>
    /\ adQueue = TRUE
    /\ adSync = AdIdle
    /\ adPass = AdTraced
    /\ adSeen = [torn |-> FALSE, midPass |-> FALSE]
    /\ NoCleaner
    /\ call = NoCall
    /\ mgr = NoManager

NextAdConfig ==
    \/ AdSyncList
    \/ \E accepted \in BOOLEAN : AdSyncValidate(accepted)
    \/ AdSyncPublish
    \/ \E v \in {NoSecret, GoodBindSecret} : SetBindSecret("bx", v)

SpecAdConfig == InitAdConfig /\ [][NextAdConfig]_vars

\* C34: the configuration built for a resource has username attribute
\* sAMAccountName when the resource leaves it empty and UID attribute
\* objectGUID when the resource leaves that empty, each whatever the other
\* is; a non-empty attribute, the name, the host, the search bases and
\* filters and the group-name attribute are those of the resource; and the
\* published list holds these configurations.
C34_ActiveDirectoryDefaults ==
    /\ \A i \in 1..Len(adPass.configs) :
          LET spec == adPass.listed[i].spec
              config == adPass.configs[i]
          IN /\ config.name = adPass.listed[i].name
             /\ config.host = spec.host
             /\ config.userSearch.base = spec.userSearch.base
             /\ config.userSearch.filter = spec.userSearch.filter
             /\ config.groupSearch.base = spec.groupSearch.base
             /\ config.groupSearch.filter = spec.groupSearch.filter
             /\ config.groupSearch.groupNameAttribute = spec.groupSearch.attributes.groupName
             /\ spec.userSearch.attributes.username = ""
                   => config.userSearch.usernameAttribute = "sAMAccountName"
             /\ spec.userSearch.attributes.username # ""
                   => config.userSearch.usernameAttribute = spec.userSearch.attributes.username
             /\ spec.userSearch.attributes.uid = ""
                   => config.userSearch.uidAttribute = "objectGUID"
             /\ spec.userSearch.attributes.uid # ""
                   => config.userSearch.uidAttribute = spec.userSearch.attributes.uid
    /\ adPass.result \in {"nil", "requeue"} =>
          \A k \in 1..Len(adCache) :
              \E i \in 1..Len(adPass.configs) : adCache[k] = adPass.configs[i]

\* A resource that names its username attribute and leaves the UID
\* attribute and the group-name attribute out: published with the UID
\* default alone.
C34_Witness ==
    /\ adPass.result = "nil"
    /\ Len(adCache) = 1
    /\ adPass.listed[1].spec.userSearch.attributes = [username |-> "mail", uid |-> ""]
    /\ adPass.listed[1].spec.groupSearch.attributes.groupName = ""
    /\ adCache[1].userSearch.usernameAttribute = "mail"
    /\ adCache[1].userSearch.uidAttribute = "objectGUID"
    /\ adCache[1].groupSearch.groupNameAttribute = ""
    /\ adCache[1].host = adPass.listed[1].spec.host

\* ------------------------------------------------- a list the cleaner cannot read

\* C35: a pass whose list of WebhookAuthenticators fails, or whose list of
\* JWTAuthenticators fails after the other succeeded, returns an error at
\* once: the step reads no key, closes no value and deletes no entry, the
\* worker is idle again, and the record of the pass holds nothing examined,
\* closed or removed.
C35_GcListFailure ==
    [][/\ (gcPass.failed = "" /\ gcPass'.failed # "") =>
            /\ gcPass'.failed \in GcLists
            /\ gcPass'.result = "error"
            /\ authnCache' = authnCache
            /\ closeCount' = closeCount
            /\ gc.pc = "idle" /\ gc' = gc
       /\ gcPass'.failed # "" =>
            /\ gcPass'.result = "error"
            /\ gcPass'.examined = {} /\ gcPass'.got = {}
            /\ gcPass'.closed = {} /\ gcPass'.removed = {}
            /\ gc'.pc = "idle"
            /\ gcPass'.result = gcPass.result => gcPass'.evicted = gcPass.evicted]_vars

\* The list of JWTAuthenticators fails while the cache holds the entry of a
\* declared JWTAuthenticator and the entry of a WebhookAuthenticator that
\* is not declared: both are still there.
C35_Witness ==
    /\ gcPass.failed = "JWTAuthenticators" /\ gcPass.result = "error"
    /\ \E m \in jwtAuthenticators :
          authnCache[Key(m.namespace, m.name, kindJWT, ownGroup)].present
    /\ \E k \in CacheKeys :
          /\ authnCache[k].present /\ k.kind = kindWebhook
          /\ Evicts(k, AuthenticatorSet(webhooks, jwtAuthenticators))
    /\ CachedKeys(authnCache) = gcPass.before

\* ------------------------------------------------- the order of the checks

\* The checks a decoded file fails, told from the values of the file.
FailedChecks ==
    (IF call.package = "concierge" /\ (Duration < RenewBefore \/ RenewBefore <= 0)
     THEN {"validate api"} ELSE {})
    \cup (IF call.file.apiGroupSuffix = Ptr(".starts.with.dot")
          THEN {"validate apiGroupSuffix"} ELSE {})
    \cup (IF ~AllNames THEN {"validate names"} ELSE {})
    \cup (IF call.file.listenPort = Ptr(0) THEN {"validate listenPort"} ELSE {})
    \cup (IF call.file.logLevel = "nonsense" THEN {"validate log level"} ELSE {})

\* The order in which FromPath of the package runs its checks.
CheckOrder ==
    IF call.package = "concierge"
    THEN <<"validate api", "validate apiGroupSuffix", "validate names",
           "validate listenPort", "validate log level">>
    ELSE <<"validate apiGroupSuffix", "validate names", "validate log level",
           "validate listenPort">>

\* C36: FromPath reports the first failing check only, in the order lifetimes,
\* apiGroupSuffix, names, listenPort, log level for the concierge and
\* apiGroupSuffix, names, log level, listenPort for the supervisor; with an
\* error it returns no Config, and without a failing check it returns one.
C36_ValidationOrder ==
    Decoded =>
        LET failing == SelectSeq(CheckOrder, LAMBDA c : c \in FailedChecks)
        IN /\ failing = <<>> <=> call.out.err = NoError
           /\ failing # <<>> => call.out.err.stage = failing[1]
           /\ call.out.err # NoError <=> call.out.config = Nil

\* A supervisor file with a bad port and a bad log level fails on the log
\* level.
C36_Witness ==
    /\ Decoded /\ call.package = "supervisor"
    /\ call.file.listenPort = Ptr(0) /\ call.file.logLevel = "nonsense"
    /\ FailedChecks = {"validate listenPort", "validate log level"}
    /\ call.out.err.stage = "validate log level"
    /\ call.out.config = Nil

\* ------------------------------------------------- failed discovery

\* C37: the discovery cache changes only in a validation whose discovery
\* call was made and answered, and then holds that answer for the issuer; a
\* validation that ends Unreachable has called the transport and leaves the
\* cache as it was; and the validation of an issuer that the pass before
\* found Unreachable calls the transport again.
C37_FailedDiscoveryNotCached ==
    [][IF pc = "loop" /\ idx' = idx + 1
       THEN LET issuer == actualUpstreams[idx + 1].issuer
                cond == ConditionOf(pass'.conditions[idx + 1], typeOIDCDiscoverySucceeded)
                called == pass'.called[idx + 1]
                answered == ~cancelled /\ ~discovery[issuer].err
            IN /\ validatorCache' # validatorCache =>
                     /\ called /\ answered
                     /\ \A i \in Issuers \ {issuer} : validatorCache'[i] = validatorCache[i]
                     /\ validatorCache'[issuer].cached
                     /\ validatorCache'[issuer].provider = discovery[issuer]
               /\ cond.reason = reasonUnreachable =>
                     called /\ ~answered /\ validatorCache' = validatorCache
               /\ issuer \in prev.unreachable => called
       ELSE validatorCache' = validatorCache]_vars

\* Two passes at the same time: the first finds the issuer Unreachable, the
\* second calls the transport again, gets an answer and caches it.
C37_Witness ==
    /\ prev.unreachable = {"i1"}
    /\ Len(pass.called) = 1 /\ pass.called[1]
    /\ pass.listed[1].issuer = "i1"
    /\ pass.times[1] = 1
    /\ ConditionOf(pass.conditions[1], typeOIDCDiscoverySucceeded).reason = reasonInvalidResponse
    /\ validatorCache["i1"].cached
    /\ validatorCache["i1"].provider = Provider(HTTPAuthURL)

\* ------------------------------------------------- the listed objects

NeverRemovesDeclared ==
    \A e \in gcPass.removed : e[1] \notin gcPass.listed

\* C39: with another component storing into the cache while a pass runs,
\* every value the pass removed that has a Close method has been closed,
\* and the pass removed no entry whose key is declared in the lists it
\* read.
C39_ConcurrentWriter ==
    \A e \in gcPass.removed :
        /\ ClosableOf(e[1]) => closeCount[e] >= 1
        /\ e[1] \notin gcPass.listed

====
